---- MODULE Spec2Model ----
(***************************************************************************)
(* FinanceLaborUnion: the ECPay CheckMacValue signer and callback verifier *)
(* (services/ecpayService.ts), the batch e-mail sender                     *)
(* (services/emailService.ts) and the payment records kept in a Google     *)
(* spreadsheet (services/googleSheetsService.ts), with the handlers of     *)
(* handler/apiHandler.ts that call them, modelled as state machines.       *)
(*                                                                         *)
(* A JavaScript string is a sequence of one-character strings.  A          *)
(* JavaScript value is a record tagged with its type.  A parameter object  *)
(* is the sequence of its own properties in insertion order.               *)
(***************************************************************************)
EXTENDS Integers, Sequences, FiniteSets, TLC

VARIABLES
    params,      \* the parameter object at hand (insertion-ordered), or NullData
    sig1,        \* record of the first signing performed, or NoSig
    sig2,        \* record of the second signing performed, or NoSig
    attached,    \* [obj |-> the object whose signature was attached as CheckMacValue], or NoSig
    tampered,    \* the TradeAmt value replaced by tampering, or NoSig
    verdict,     \* record of the last verifyCallback call, or NoSig
    to,          \* sendEmail: the recipient list
    batchSize,   \* sendEmail: the batchSize argument
    delayMs,     \* sendEmail: the delayMs argument
    pc,          \* sendEmail: where the call stands
    i,           \* sendEmail: the loop index (0-based, as in the code)
    pending,     \* sendEmail: positions of the current batch whose sendMail is in flight
    batchResults,\* sendEmail: position -> outcome, for the settled promises of the batch
    results,     \* sendEmail: the results array
    successCount,\* sendEmail: the successCount counter
    failureCount,\* sendEmail: the failureCount counter
    returned,    \* sendEmail: the BatchEmailResult returned, or NoResult
    settleOrder, \* sendEmail: positions of the current batch in the order they settled
    fate,        \* history: position -> TRUE if the transport accepted that send
    startOrder,  \* history: positions in the order their sendMail was started
    delays,      \* history: number of inter-batch delays taken
    sheetsByTitle, \* GoogleSheetsService: doc.sheetsByTitle, title -> worksheet (header, rows)
    upd,         \* the updatePaymentData call: its arguments, locals and position
    bat,         \* the updatePaymentDataBatch call: its arguments, locals and position
    gen,         \* the generatePaymentLinks call: its locals and position
    calls,       \* number of generatePaymentLinks calls begun
    before,      \* history: the operation last begun and the spreadsheet as it began
    io,          \* history: reads and writes of the spreadsheet since that operation began
    seq,         \* history: the spreadsheet of the run that updates row by row, and its outcome
    overlap,     \* history: TRUE once the other writer has not fallen between two iterations
    sta,         \* the updatePaymentStatus call: its arguments, locals and position
    lnk,         \* the sendPaymentLink request: its locals and position
    body,        \* handleSendEmail: the parsed body of the request, and the response
    form,        \* record of the createPaymentForm call, or NoSig
    processed    \* record of the processCallback call, or NoSig

signVars == <<params, sig1, sig2, attached, tampered, verdict>>
mailVars == <<to, batchSize, delayMs, pc, i, pending, batchResults, results,
              successCount, failureCount, returned, settleOrder, fate, startOrder,
              delays>>
storeVars == <<sheetsByTitle, upd, bat, gen, calls, before, io, seq, overlap>>
callVars == <<sta, lnk, body, form, processed>>
vars == <<signVars, mailVars, storeVars, callVars>>

-----------------------------------------------------------------------------
(* Characters and strings                                                  *)

\* The printable ASCII characters, code units 32..126 in order ("GRAVE" stands
\* for the grave accent, code unit 96).
Ascii ==
    << " ", "!", "\"", "#", "$", "%", "&", "'", "(", ")", "*", "+", ",", "-", ".", "/",
       "0", "1", "2", "3", "4", "5", "6", "7", "8", "9", ":", ";", "<", "=", ">", "?",
       "@", "A", "B", "C", "D", "E", "F", "G", "H", "I", "J", "K", "L", "M", "N", "O",
       "P", "Q", "R", "S", "T", "U", "V", "W", "X", "Y", "Z", "[", "\\", "]", "^", "_",
       "GRAVE", "a", "b", "c", "d", "e", "f", "g", "h", "i", "j", "k", "l", "m", "n", "o",
       "p", "q", "r", "s", "t", "u", "v", "w", "x", "y", "z", "{", "|", "}", "~" >>

AsciiChars == { Ascii[n] : n \in 1..Len(Ascii) }

\* A lone high surrogate (code unit 0xD800): a JavaScript string may hold one,
\* and encodeURIComponent throws URIError on it.
LoneSurrogate == "\\uD800"

\* charCodeAt(0) of a character.
CharCode == [c \in AsciiChars \cup {LoneSurrogate} |->
                IF c = LoneSurrogate THEN 55296
                ELSE 31 + (CHOOSE n \in 1..Len(Ascii) : Ascii[n] = c)]

FromCharCode(n) == Ascii[n - 31]

HexDigitsLower == <<"0","1","2","3","4","5","6","7","8","9","a","b","c","d","e","f">>
HexDigitsUpper == <<"0","1","2","3","4","5","6","7","8","9","A","B","C","D","E","F">>

\* Two hex digits of a byte.
HexByte(n, digits) == << digits[(n \div 16) + 1], digits[(n % 16) + 1] >>

\* The concatenation of a sequence of strings (by halves, to keep the
\* evaluation shallow).
RECURSIVE Concat(_)
Concat(seqs) ==
    IF Len(seqs) = 0 THEN <<>>
    ELSE IF Len(seqs) = 1 THEN seqs[1]
    ELSE LET h == Len(seqs) \div 2
         IN Concat(SubSeq(seqs, 1, h)) \o Concat(SubSeq(seqs, h + 1, Len(seqs)))

\* Array.prototype.join
RECURSIVE Join(_, _)
Join(parts, sep) ==
    IF parts = <<>> THEN <<>>
    ELSE IF Len(parts) = 1 THEN parts[1]
    ELSE parts[1] \o sep \o Join(Tail(parts), sep)

\* String.prototype.toLowerCase / toUpperCase on code units.
LowerChar(c) ==
    IF c \in AsciiChars /\ CharCode[c] >= 65 /\ CharCode[c] <= 90
    THEN FromCharCode(CharCode[c] + 32) ELSE c
UpperChar(c) ==
    IF c \in AsciiChars /\ CharCode[c] >= 97 /\ CharCode[c] <= 122
    THEN FromCharCode(CharCode[c] - 32) ELSE c
toLowerCase(s) == [n \in 1..Len(s) |-> LowerChar(s[n])]
toUpperCase(s) == [n \in 1..Len(s) |-> UpperChar(s[n])]

\* The default comparison of Array.prototype.sort: strings by code units.
RECURSIVE StrLess(_, _)
StrLess(a, b) ==
    IF b = <<>> THEN FALSE
    ELSE IF a = <<>> THEN TRUE
    ELSE IF CharCode[a[1]] # CharCode[b[1]] THEN CharCode[a[1]] < CharCode[b[1]]
    ELSE StrLess(Tail(a), Tail(b))

RECURSIVE InsertSorted(_, _)
InsertSorted(k, sorted) ==
    IF sorted = <<>> THEN <<k>>
    ELSE IF StrLess(k, sorted[1]) THEN <<k>> \o sorted
    ELSE <<sorted[1]>> \o InsertSorted(k, Tail(sorted))

\* SortKeys with the sort left out: the keys stay in insertion order.
SortKeysUnsorted(keys) == keys

\* keys.sort()
RECURSIVE SortKeys(_)
SortKeys(keys) ==
    IF keys = <<>> THEN <<>>
    ELSE InsertSorted(keys[Len(keys)], SortKeys(SubSeq(keys, 1, Len(keys) - 1)))

\* Characters encodeURIComponent leaves alone: A-Z a-z 0-9 - _ . ! ~ * ' ( )
UriUnreserved ==
    { c \in AsciiChars :
        \/ CharCode[c] >= 48 /\ CharCode[c] <= 57
        \/ CharCode[c] >= 65 /\ CharCode[c] <= 90
        \/ CharCode[c] >= 97 /\ CharCode[c] <= 122 }
    \cup {"-", "_", ".", "!", "~", "*", "'", "(", ")"}

\* encodeURIComponent: throws URIError on a lone surrogate; escapes every other
\* character outside UriUnreserved as %XX with upper-case hex digits.
encodeURIComponent(s) ==
    IF \E n \in 1..Len(s) : s[n] = LoneSurrogate
    THEN [threw |-> TRUE, s |-> <<>>]
    ELSE [threw |-> FALSE,
          s |-> Concat([n \in 1..Len(s) |->
                    IF s[n] \in UriUnreserved THEN <<s[n]>>
                    ELSE <<"%">> \o HexByte(CharCode[s[n]], HexDigitsUpper)])]

\* s.replace(/pat/g, rep) for a literal pattern no occurrence of which can
\* overlap another (every pattern used is % followed by two hex digits), so
\* the left-to-right scan replaces every occurrence.
MatchAt(s, pat, n) ==
    /\ n >= 1 /\ n + Len(pat) - 1 <= Len(s)
    /\ \A j \in 1..Len(pat) : s[n + j - 1] = pat[j]
ReplaceAll(s, pat, rep) ==
    Concat([n \in 1..Len(s) |->
        IF MatchAt(s, pat, n) THEN rep
        ELSE IF \E d \in 1..(Len(pat) - 1) : MatchAt(s, pat, n - d) THEN <<>>
        ELSE <<s[n]>>])

\* s.replace(/[!'()*]/g, c => '%' + c.charCodeAt(0).toString(16).toUpperCase())
ReplaceReserved(s) ==
    Concat([n \in 1..Len(s) |->
        IF s[n] \in {"!", "'", "(", ")", "*"}
        THEN <<"%">> \o HexByte(CharCode[s[n]], HexDigitsUpper)
        ELSE <<s[n]>>])

\* crypto.createHash('sha256').update(s).digest('hex'): SHA-256 is taken to be
\* collision-free, so the digest is an injective map into lower-case hex strings;
\* here, the hex dump of the input's bytes (the input is ASCII after encoding).
sha256Hex(s) == Concat([n \in 1..Len(s) |-> HexByte(CharCode[s[n]], HexDigitsLower)])

-----------------------------------------------------------------------------
(* JavaScript values and parameter objects                                 *)

JSString(s) == [t |-> "string", s |-> s]
JSNumber(n) == [t |-> "number", n |-> n]
JSUndefined == [t |-> "undefined"]
JSNull      == [t |-> "null"]

RECURSIVE NatToString(_)
NatToString(n) ==
    IF n < 10 THEN <<HexDigitsLower[n + 1]>>
    ELSE NatToString(n \div 10) \o <<HexDigitsLower[(n % 10) + 1]>>

\* `${value}` of a template literal.
TemplateString(v) ==
    CASE v.t = "string"    -> v.s
      [] v.t = "number"    -> NatToString(v.n)
      [] v.t = "undefined" -> <<"u","n","d","e","f","i","n","e","d">>
      [] v.t = "null"      -> <<"n","u","l","l">>

CheckMacValueKey == <<"C","h","e","c","k","M","a","c","V","a","l","u","e">>
TradeAmtKey      == <<"T","r","a","d","e","A","m","t">>
RtnCodeKey       == <<"R","t","n","C","o","d","e">>
RtnMsgKey        == <<"R","t","n","M","s","g">>

\* config.ecpay.hashKey / hashIV (ECPAY_HASH_KEY, ECPAY_HASH_IV of the environment).
hashKey == <<"k","e","y","!">>
hashIV  == <<"i","v","_">>

\* null passed where a parameter object is expected: it has no properties, and
\* reading one throws TypeError.
NullData == << [null |-> TRUE] >>
\* No record yet.
NoSig    == [none |-> TRUE]

\* Object.keys(obj), own properties in insertion order.
ObjectKeys(obj) == [n \in 1..Len(obj) |-> obj[n].k]

\* obj[key]
GetProp(obj, key) ==
    IF \E n \in 1..Len(obj) : obj[n].k = key
    THEN obj[CHOOSE n \in 1..Len(obj) : obj[n].k = key].v
    ELSE JSUndefined

\* obj[key] = value: an existing property keeps its place, a new one goes last.
SetProp(obj, key, value) ==
    IF \E n \in 1..Len(obj) : obj[n].k = key
    THEN [n \in 1..Len(obj) |-> IF obj[n].k = key THEN [k |-> key, v |-> value] ELSE obj[n]]
    ELSE Append(obj, [k |-> key, v |-> value])

HasProp(obj, key) == \E n \in 1..Len(obj) : obj[n].k = key

\* const { CheckMacValue, ...filteredParams } = params
RestWithout(obj, key) == SelectSeq(obj, LAMBDA e : e.k # key)

\* The object as a map, whatever the insertion order.
AsMap(obj) == { obj[n] : n \in 1..Len(obj) }

-----------------------------------------------------------------------------
(* ECPayService: the two signers and the callback verifier                 *)

SignThrew == [threw |-> TRUE]

\* The prefix and suffix literals of the string to hash.
HashKeyPrefix == <<"H","a","s","h","K","e","y","=">>
HashIVPrefix  == <<"H","a","s","h","I","V","=">>

\* The loop of generateCheckMacValue: one key=value part for every sorted key
\* whose value is neither undefined, null nor ''.
RECURSIVE QueryParts(_, _)
QueryParts(obj, sortedKeys) ==
    IF sortedKeys = <<>> THEN <<>>
    ELSE LET key   == Head(sortedKeys)
             value == GetProp(obj, key)
         IN (IF value # JSUndefined /\ value # JSNull /\ value # JSString(<<>>)
             THEN << key \o <<"=">> \o TemplateString(value) >>
             ELSE <<>>)
            \o QueryParts(obj, Tail(sortedKeys))

\* generateCheckMacValue with the destructuring left out: CheckMacValue is signed
\* like any other field.
generateCheckMacValueKeepMac(p) ==
    IF p = NullData THEN SignThrew
    ELSE LET sortedKeys   == SortKeys(ObjectKeys(p))
             queryString  == Join(QueryParts(p, sortedKeys), <<"&">>)
             stringToHash == HashKeyPrefix \o hashKey \o <<"&">> \o queryString
                             \o <<"&">> \o HashIVPrefix \o hashIV
             enc          == encodeURIComponent(stringToHash)
             encodedString == ReplaceReserved(
                                 ReplaceAll(toLowerCase(enc.s), <<"%","2","0">>, <<"+">>))
         IN IF enc.threw THEN SignThrew
            ELSE [threw |-> FALSE, canon |-> stringToHash, encoded |-> encodedString,
                  hash |-> toUpperCase(sha256Hex(encodedString))]

\* ECPayService.generateCheckMacValue.  A null argument makes the destructuring
\* throw TypeError; a lone surrogate makes encodeURIComponent throw URIError.
generateCheckMacValue(p) ==
    IF p = NullData THEN SignThrew
    ELSE LET filteredParams == RestWithout(p, CheckMacValueKey)
             sortedKeys   == SortKeys(ObjectKeys(filteredParams))
             queryString  == Join(QueryParts(filteredParams, sortedKeys), <<"&">>)
             stringToHash == HashKeyPrefix \o hashKey \o <<"&">> \o queryString
                             \o <<"&">> \o HashIVPrefix \o hashIV
             enc          == encodeURIComponent(stringToHash)
             encodedString == ReplaceReserved(
                                 ReplaceAll(toLowerCase(enc.s), <<"%","2","0">>, <<"+">>))
         IN IF enc.threw THEN SignThrew
            ELSE [threw |-> FALSE, canon |-> stringToHash, encoded |-> encodedString,
                  hash |-> toUpperCase(sha256Hex(encodedString))]

\* The loop of generateCheckMacValueGit: checkValue += `${key}=${data[key]}&`.
RECURSIVE GitParts(_, _)
GitParts(data, keys) ==
    IF keys = <<>> THEN <<>>
    ELSE Head(keys) \o <<"=">> \o TemplateString(GetProp(data, Head(keys))) \o <<"&">>
         \o GitParts(data, Tail(keys))

\* The replace chain of generateCheckMacValueGit, in the order of the code.
GitRestore(s) ==
    LET r1 == ReplaceAll(s,  <<"%","2","0">>, <<"+">>)
        r2 == ReplaceAll(r1, <<"%","2","d">>, <<"-">>)
        r3 == ReplaceAll(r2, <<"%","5","f">>, <<"_">>)
        r4 == ReplaceAll(r3, <<"%","2","e">>, <<".">>)
        r5 == ReplaceAll(r4, <<"%","2","1">>, <<"!">>)
        r6 == ReplaceAll(r5, <<"%","2","a">>, <<"*">>)
        r7 == ReplaceAll(r6, <<"%","2","8">>, <<"(">>)
        r8 == ReplaceAll(r7, <<"%","2","9">>, <<")">>)
    IN ReplaceAll(r8, <<"%","2","0">>, <<"+">>)

\* ECPayService.generateCheckMacValueGit: no key is dropped.
generateCheckMacValueGit(data) ==
    IF data = NullData THEN SignThrew
    ELSE LET keys       == SortKeys(ObjectKeys(data))
             checkValue == HashKeyPrefix \o hashKey \o <<"&">> \o GitParts(data, keys)
                           \o HashIVPrefix \o hashIV
             enc        == encodeURIComponent(checkValue)
             restored   == GitRestore(toLowerCase(enc.s))
         IN IF enc.threw THEN SignThrew
            ELSE [threw |-> FALSE, canon |-> checkValue, encoded |-> restored,
                  hash |-> toUpperCase(sha256Hex(restored))]

Signers == {"generateCheckMacValue", "generateCheckMacValueGit"}
RunSigner(signer, p) ==
    IF signer = "generateCheckMacValue" THEN generateCheckMacValue(p)
    ELSE generateCheckMacValueGit(p)

\* The try block of verifyCallback.  Reading a property of null throws TypeError.
verifyCallbackTry(callbackData) ==
    IF callbackData = NullData
    THEN [threw |-> TRUE, received |-> JSUndefined, calculated |-> SignThrew]
    ELSE LET receivedCheckMac   == GetProp(callbackData, CheckMacValueKey)
             calculatedCheckMac == generateCheckMacValue(callbackData)
         IN IF calculatedCheckMac.threw
            THEN [threw |-> TRUE, received |-> receivedCheckMac,
                  calculated |-> calculatedCheckMac]
            ELSE [threw |-> FALSE, received |-> receivedCheckMac,
                  calculated |-> calculatedCheckMac,
                  isValid |-> (receivedCheckMac = JSString(calculatedCheckMac.hash))]

\* verifyCallback without its catch clause: an error of the try block escapes.
verifyCallbackNoCatch(callbackData) ==
    LET t == verifyCallbackTry(callbackData)
    IN [raised |-> t.threw, value |-> IF t.threw THEN FALSE ELSE t.isValid,
        received |-> t.received, calculated |-> t.calculated]

\* verifyCallback accepting whenever the signature could be computed.
verifyCallbackNoCompare(callbackData) ==
    LET t == verifyCallbackTry(callbackData)
    IN [raised |-> FALSE, value |-> ~t.threw,
        received |-> t.received, calculated |-> t.calculated]

\* ECPayService.verifyCallback: try { ... return isValid } catch { return false }.
verifyCallback(callbackData) ==
    LET t == verifyCallbackTry(callbackData)
    IN [raised |-> FALSE, value |-> IF t.threw THEN FALSE ELSE t.isValid,
        received |-> t.received, calculated |-> t.calculated]

-----------------------------------------------------------------------------
(* Inputs of the signer and the verifier                                   *)

\* The largest number of properties of a parameter object drawn as input.
MaxKeys == 2

Keys == {CheckMacValueKey, RtnCodeKey, RtnMsgKey, TradeAmtKey}

\* The values each field is drawn from.
ValuesOf(key) ==
    CASE key = RtnCodeKey  -> {JSNumber(1), JSNumber(10), JSString(<<"1">>)}
      [] key = RtnMsgKey   -> {JSString(<<>>), JSString(<<"O"," ","k","!">>), JSUndefined,
                               JSNull, JSString(<<LoneSurrogate>>)}
      [] key = TradeAmtKey -> {JSString(<<"1">>), JSString(<<"1","A">>), JSString(<<"1","a">>),
                               JSString(<<>>), JSNumber(1)}
      [] key = CheckMacValueKey -> {JSString(<<"A","B">>), JSString(<<>>)}

Entries == UNION { { [k |-> key, v |-> value] : value \in ValuesOf(key) } : key \in Keys }

\* Objects of at most MaxKeys properties, in every insertion order.
ParamObjects ==
    UNION { { obj \in [1..n -> Entries] :
                \A a, b \in 1..n : a # b => obj[a].k # obj[b].k } : n \in 0..MaxKeys }

\* The same properties in another insertion order.
Reorderings(obj) ==
    { o \in [1..Len(obj) -> AsMap(obj)] : AsMap(o) = AsMap(obj) /\ o # obj }

NoResult == [none |-> TRUE]

\* The e-mail variables, at rest while the signer is exercised.
MailParked ==
    /\ to = <<>> /\ batchSize = 1 /\ delayMs = 0 /\ pc = "parked" /\ i = 0
    /\ pending = {} /\ batchResults = <<>> /\ results = <<>>
    /\ successCount = 0 /\ failureCount = 0 /\ returned = NoResult
    /\ settleOrder = <<>> /\ fate = <<>> /\ startOrder = <<>> /\ delays = 0

\* No call in hand.
NoCall == [pc |-> "idle"]

\* The spreadsheet variables, at rest while the signer or the sender is exercised.
StoreParked ==
    /\ sheetsByTitle = <<>> /\ upd = NoCall /\ bat = NoCall /\ gen = NoCall
    /\ calls = 0 /\ before = NoCall /\ io = 0 /\ seq = NoCall /\ overlap = FALSE

\* The calls made on top of the services, not begun.
CallsParked ==
    /\ sta = NoCall /\ lnk = NoCall /\ body = NoCall
    /\ form = NoSig /\ processed = NoSig

-----------------------------------------------------------------------------
(* The signer exercised: sign, change the object, sign again               *)

SignInit ==
    /\ params \in ParamObjects \cup {NullData}
    /\ sig1 = NoSig /\ sig2 = NoSig
    /\ attached = NoSig /\ tampered = NoSig /\ verdict = NoSig
    /\ MailParked
    /\ StoreParked
    /\ CallsParked

SigRecord(signer) == [signer |-> signer, input |-> params, out |-> RunSigner(signer, params)]

\* A first call of one of the signers on the object at hand.
SignFirst(signer) ==
    /\ sig1 = NoSig
    /\ sig1' = SigRecord(signer)
    /\ UNCHANGED <<params, sig2, attached, tampered, verdict, mailVars, storeVars, callVars>>

\* A second call of the same signer, after the object was changed.
SignAgain ==
    /\ sig1 # NoSig /\ sig2 = NoSig /\ params # sig1.input
    /\ sig2' = SigRecord(sig1.signer)
    /\ UNCHANGED <<params, sig1, attached, tampered, verdict, mailVars, storeVars, callVars>>

\* The caller rebuilds the object with its keys in another order.
Permute ==
    /\ sig1 # NoSig /\ sig2 = NoSig /\ params = sig1.input /\ params # NullData
    /\ params' \in Reorderings(params)
    /\ UNCHANGED <<sig1, sig2, attached, tampered, verdict, mailVars, storeVars, callVars>>

\* The caller sets params.CheckMacValue = x.
SetCheckMacValue(x) ==
    /\ sig1 # NoSig /\ sig2 = NoSig /\ params = sig1.input /\ params # NullData
    /\ ~HasProp(params, CheckMacValueKey)
    /\ params' = SetProp(params, CheckMacValueKey, x)
    /\ UNCHANGED <<sig1, sig2, attached, tampered, verdict, mailVars, storeVars, callVars>>

\* The caller deletes params.CheckMacValue.
DeleteCheckMacValue ==
    /\ sig1 # NoSig /\ sig2 = NoSig /\ params = sig1.input /\ params # NullData
    /\ HasProp(params, CheckMacValueKey)
    /\ params' = RestWithout(params, CheckMacValueKey)
    /\ UNCHANGED <<sig1, sig2, attached, tampered, verdict, mailVars, storeVars, callVars>>

SignNext ==
    \/ \E signer \in Signers : SignFirst(signer)
    \/ SignAgain
    \/ Permute
    \/ \E x \in ValuesOf(CheckMacValueKey) : SetCheckMacValue(x)
    \/ DeleteCheckMacValue

SignSpec == SignInit /\ [][SignNext]_vars

\* C1: signing is invariant under the insertion order of the keys: two calls of
\* the same signer on objects holding the same properties, in whatever order,
\* build the same canonical string, the same encoded string and the same
\* CheckMacValue.
C1_SignOrderInvariant ==
    (sig1 # NoSig /\ sig2 # NoSig /\ AsMap(sig1.input) = AsMap(sig2.input))
        => sig1.out = sig2.out

\* Both calls done on two different orders of at least two signed keys.
C1_Witness ==
    /\ sig1 # NoSig /\ sig2 # NoSig
    /\ sig1.signer = "generateCheckMacValue"
    /\ sig1.input # sig2.input
    /\ AsMap(sig1.input) = AsMap(sig2.input)
    /\ ~sig2.out.threw
    /\ Len(RestWithout(sig2.input, CheckMacValueKey)) >= 2

\* C5: the signature never depends on a CheckMacValue entry: two calls of the
\* same signer on objects that differ only in their CheckMacValue property
\* (present with any value, or absent) return the same signature.
C5_SignIgnoresCheckMacValue ==
    (/\ sig1 # NoSig /\ sig2 # NoSig
     /\ AsMap(RestWithout(sig1.input, CheckMacValueKey))
          = AsMap(RestWithout(sig2.input, CheckMacValueKey)))
        => sig1.out = sig2.out

-----------------------------------------------------------------------------
(* The verifier exercised: attach a signature, tamper, verify              *)

VerifyInit == SignInit

\* The sender signs the object and stores the signature as its CheckMacValue.
AttachSignature ==
    /\ attached = NoSig /\ verdict = NoSig
    /\ ~generateCheckMacValue(params).threw
    /\ params' = SetProp(params, CheckMacValueKey,
                         JSString(generateCheckMacValue(params).hash))
    /\ attached' = [obj |-> params]
    /\ UNCHANGED <<sig1, sig2, tampered, verdict, mailVars, storeVars, callVars>>

\* Someone changes the TradeAmt of a signed callback and nothing else.
TamperTradeAmt(v) ==
    /\ attached # NoSig /\ tampered = NoSig /\ verdict = NoSig
    /\ HasProp(params, TradeAmtKey)
    /\ v # GetProp(params, TradeAmtKey)
    /\ params' = SetProp(params, TradeAmtKey, v)
    /\ tampered' = [from |-> GetProp(params, TradeAmtKey), to |-> v]
    /\ UNCHANGED <<sig1, sig2, attached, verdict, mailVars, storeVars, callVars>>

\* A call of verifyCallback on the object at hand.
Verify ==
    /\ verdict = NoSig
    /\ verdict' = [input |-> params, out |-> verifyCallback(params)]
    /\ UNCHANGED <<params, sig1, sig2, attached, tampered, mailVars, storeVars, callVars>>

\* NaN
JSNaN == [t |-> "number", nan |-> TRUE]

\* The decimal digits a string begins with.
RECURSIVE LeadingDigits(_)
LeadingDigits(s) ==
    IF s # <<>> /\ s[1] \in {"0","1","2","3","4","5","6","7","8","9"}
    THEN <<s[1]>> \o LeadingDigits(Tail(s)) ELSE <<>>

RECURSIVE DigitsValue(_)
DigitsValue(d) ==
    IF d = <<>> THEN 0
    ELSE 10 * DigitsValue(SubSeq(d, 1, Len(d) - 1)) + (CharCode[d[Len(d)]] - 48)

\* parseInt(v) for the values at hand: the argument is converted to a string and
\* its leading decimal digits are read; NaN if there is none.
parseInt(v) ==
    LET d == LeadingDigits(TemplateString(v))
    IN IF d = <<>> THEN JSNaN ELSE JSNumber(DigitsValue(d))

\* ECPayService.processCallback.  verifyCallback catches its own errors; reading
\* RtnCode of null throws TypeError.
processCallback(callbackData) ==
    IF callbackData = NullData THEN [threw |-> TRUE]
    ELSE [threw     |-> FALSE,
          isValid   |-> verifyCallback(callbackData).value,
          isSuccess |-> (GetProp(callbackData, RtnCodeKey) = JSNumber(1)),
          amount    |-> parseInt(GetProp(callbackData, TradeAmtKey)),
          message   |-> GetProp(callbackData, RtnMsgKey)]

\* A call of processCallback on the object at hand.
ProcessCallback ==
    /\ processed = NoSig
    /\ processed' = [input |-> params, out |-> processCallback(params)]
    /\ UNCHANGED <<signVars, mailVars, storeVars, sta, lnk, body, form>>

VerifyNext ==
    \/ AttachSignature
    \/ \E v \in ValuesOf(TradeAmtKey) : TamperTradeAmt(v)
    \/ Verify
    \/ ProcessCallback

VerifySpec == VerifyInit /\ [][VerifyNext]_vars

\* C2: an object whose CheckMacValue was replaced by the signature computed over
\* it is accepted by verifyCallback.
C2_VerifyAcceptsOwnSignature ==
    (verdict # NoSig /\ attached # NoSig /\ tampered = NoSig)
        => (~verdict.out.raised /\ verdict.out.value = TRUE)

\* Verified after the signature replaced a CheckMacValue the object already had.
C2_Witness ==
    /\ verdict # NoSig /\ attached # NoSig /\ tampered = NoSig
    /\ HasProp(attached.obj, CheckMacValueKey)
    /\ Len(attached.obj) >= 2
    /\ verdict.out.value = TRUE

SignedText(v) == toLowerCase(TemplateString(v))

C4_VerifyNeverRaises ==
    verdict # NoSig =>
        /\ ~verdict.out.raised
        /\ verdict.out.value \in BOOLEAN
        /\ (verdict.out.calculated.threw => verdict.out.value = FALSE)
        /\ (~verdict.out.calculated.threw
              /\ verdict.out.received # JSString(verdict.out.calculated.hash)
                => verdict.out.value = FALSE)

\* verifyCallback returned although signing threw inside it.
C4_Witness ==
    /\ verdict # NoSig
    /\ verdict.out.calculated.threw
    /\ verdict.out.value = FALSE

-----------------------------------------------------------------------------
(* EmailService.sendEmail                                                  *)

\* The longest recipient list and the largest batchSize drawn as input.
MaxRecipients == 7
MaxBatchSize  == 3

\* The default of the delayMs parameter.
DefaultDelayMs == 4000

\* The recipient lists drawn as input: two addresses in turn, so that a list of
\* three or more names an address twice.
RecipientAt(p) == IF p % 2 = 1 THEN "a@example.com" ELSE "b@example.com"
RecipientLists == { [p \in 1..n |-> RecipientAt(p)] : n \in 0..MaxRecipients }

\* What transporter.sendMail hands back for the send at position p: the
\* messageId of the info object, or the message of the Error it rejects with.
MessageId(p)    == <<"messageId", p>>
ErrorMessage(p) == <<"error", p>>

\* The object the async callback returns for the recipient at position p.
Outcome(p, ok) ==
    IF ok THEN [to |-> to[p], success |-> TRUE, messageId |-> MessageId(p)]
    ELSE [to |-> to[p], success |-> FALSE, error |-> ErrorMessage(p)]

\* to.slice(i, i + batchSize - 1): the last recipient of each batch is left out.
BatchPositionsShort(from) == { p \in 1..Len(to) : from < p /\ p <= from + batchSize - 1 }

\* to.slice(i, i + batchSize), as positions 1..Len(to) of the list.
BatchPositions(from) == { p \in 1..Len(to) : from < p /\ p <= from + batchSize }

\* A set of positions in ascending order.
RECURSIVE Ascending(_)
Ascending(S) ==
    IF S = {} THEN <<>>
    ELSE LET m == CHOOSE x \in S : \A y \in S : x <= y
         IN <<m>> \o Ascending(S \ {m})

MailInit ==
    /\ to \in RecipientLists
    /\ batchSize \in 1..MaxBatchSize
    /\ delayMs \in {0, DefaultDelayMs}
    /\ pc = "verify" /\ i = 0
    /\ pending = {} /\ batchResults = <<>> /\ results = <<>>
    /\ successCount = 0 /\ failureCount = 0 /\ returned = NoResult
    /\ settleOrder = <<>> /\ fate = <<>> /\ startOrder = <<>> /\ delays = 0
    /\ params = <<>> /\ sig1 = NoSig /\ sig2 = NoSig
    /\ attached = NoSig /\ tampered = NoSig /\ verdict = NoSig
    /\ StoreParked
    /\ CallsParked

\* await this.transporter.verify() resolves: the loop is entered.
VerifySucceeds ==
    /\ pc = "verify"
    /\ pc' = "loop"
    /\ UNCHANGED <<to, batchSize, delayMs, i, pending, batchResults, results, successCount,
                   failureCount, returned, settleOrder, fate, startOrder, delays, signVars, storeVars, callVars>>

\* await this.transporter.verify() rejects: the outer catch rethrows
\* Error('Failed to send batch emails: ...').
VerifyFails ==
    /\ pc = "verify"
    /\ pc' = "threw"
    /\ UNCHANGED <<to, batchSize, delayMs, i, pending, batchResults, results, successCount,
                   failureCount, returned, settleOrder, fate, startOrder, delays, signVars, storeVars, callVars>>

\* One pass of the loop head with i < to.length: batch.map starts sendMail for
\* every recipient of the batch, in order, and Promise.all is awaited.
StartBatch ==
    /\ pc = "loop" /\ i < Len(to)
    /\ pending' = pending \cup BatchPositions(i)
    /\ startOrder' = startOrder \o Ascending(BatchPositions(i))
    /\ batchResults' = <<>>
    /\ settleOrder' = <<>>
    /\ pc' = "sending"
    /\ UNCHANGED <<to, batchSize, delayMs, i, results, successCount, failureCount,
                   returned, fate, delays, signVars, storeVars, callVars>>

\* sendMail resolves for position p: successCount++ and the callback's promise
\* fulfils with the success outcome.
SendSucceeds(p) ==
    /\ p \in pending
    /\ pending' = pending \ {p}
    /\ successCount' = successCount + 1
    /\ batchResults' = (p :> Outcome(p, TRUE)) @@ batchResults
    /\ settleOrder' = Append(settleOrder, p)
    /\ fate' = (p :> TRUE) @@ fate
    /\ UNCHANGED <<to, batchSize, delayMs, pc, i, results, failureCount, returned,
                   startOrder, delays, signVars, storeVars, callVars>>

\* The per-recipient try/catch left out: a rejected sendMail rejects Promise.all
\* and the outer catch rethrows.
SendFailsUncaught(p) ==
    /\ p \in pending
    /\ pending' = pending \ {p}
    /\ fate' = (p :> FALSE) @@ fate
    /\ settleOrder' = Append(settleOrder, p)
    /\ pc' = "threw"
    /\ UNCHANGED <<to, batchSize, delayMs, i, batchResults, results, successCount,
                   failureCount, returned, startOrder, delays, signVars, storeVars, callVars>>

\* The failure counted in the wrong counter.
SendFailsMiscounted(p) ==
    /\ p \in pending
    /\ pending' = pending \ {p}
    /\ successCount' = successCount + 1
    /\ batchResults' = (p :> Outcome(p, FALSE)) @@ batchResults
    /\ settleOrder' = Append(settleOrder, p)
    /\ fate' = (p :> FALSE) @@ fate
    /\ UNCHANGED <<to, batchSize, delayMs, pc, i, results, failureCount, returned,
                   startOrder, delays, signVars, storeVars, callVars>>

\* sendMail rejects for position p: the callback's catch does failureCount++ and
\* its promise fulfils with the failure outcome.
SendFails(p) ==
    /\ p \in pending
    /\ pending' = pending \ {p}
    /\ failureCount' = failureCount + 1
    /\ batchResults' = (p :> Outcome(p, FALSE)) @@ batchResults
    /\ settleOrder' = Append(settleOrder, p)
    /\ fate' = (p :> FALSE) @@ fate
    /\ UNCHANGED <<to, batchSize, delayMs, pc, i, results, successCount, returned,
                   startOrder, delays, signVars, storeVars, callVars>>

\* The delay taken after every batch, the last one included.
AfterPushAlwaysDelays ==
    IF delayMs > 0
    THEN pc' = "delay" /\ i' = i
    ELSE pc' = "loop" /\ i' = i + batchSize

\* What follows results.push in a pass of the loop: the delay when another batch
\* is due and delayMs > 0, the next pass otherwise.
AfterPush ==
    IF i + batchSize < Len(to) /\ delayMs > 0
    THEN pc' = "delay" /\ i' = i
    ELSE pc' = "loop" /\ i' = i + batchSize

\* The outcomes pushed as the promises settle, not in the order of the batch.
AwaitBatchInSettleOrder ==
    /\ pc = "sending" /\ pending = {}
    /\ results' = results \o [k \in 1..Len(settleOrder) |-> batchResults[settleOrder[k]]]
    /\ AfterPush
    /\ UNCHANGED <<to, batchSize, delayMs, pending, batchResults, successCount, failureCount,
                   returned, settleOrder, fate, startOrder, delays, signVars, storeVars, callVars>>

\* The loop going on as soon as one promise of the batch has settled.
AwaitBatchFirstSettled ==
    /\ pc = "sending" /\ (pending = {} \/ settleOrder # <<>>)
    /\ results' = results \o [k \in 1..Len(settleOrder) |-> batchResults[settleOrder[k]]]
    /\ AfterPush
    /\ UNCHANGED <<to, batchSize, delayMs, pending, batchResults, successCount, failureCount,
                   returned, settleOrder, fate, startOrder, delays, signVars, storeVars, callVars>>

\* await Promise.all(batchPromises) resolves, once every promise of the batch has
\* settled, with the outcomes in the order of the batch; results.push(...).
AwaitBatch ==
    /\ pc = "sending" /\ pending = {}
    /\ LET batch == Ascending(DOMAIN batchResults)
       IN results' = results \o [k \in 1..Len(batch) |-> batchResults[batch[k]]]
    /\ AfterPush
    /\ UNCHANGED <<to, batchSize, delayMs, pending, batchResults, successCount, failureCount,
                   returned, settleOrder, fate, startOrder, delays, signVars, storeVars, callVars>>

\* The setTimeout promise of the delay resolves: the next pass of the loop.  (The
\* history counter stops at MaxRecipients, which no send that returns reaches.)
DelayElapses ==
    /\ pc = "delay"
    /\ delays' = IF delays < MaxRecipients THEN delays + 1 ELSE delays
    /\ i' = i + batchSize
    /\ pc' = "loop"
    /\ UNCHANGED <<to, batchSize, delayMs, pending, batchResults, results, successCount,
                   failureCount, returned, settleOrder, fate, startOrder, signVars, storeVars, callVars>>

\* The loop ends (i >= to.length): the BatchEmailResult is built and returned.
Return ==
    /\ pc = "loop" /\ i >= Len(to)
    /\ returned' = [totalEmails |-> Len(to), successCount |-> successCount,
                    failureCount |-> failureCount, results |-> results]
    /\ pc' = "done"
    /\ UNCHANGED <<to, batchSize, delayMs, i, pending, batchResults, results, successCount,
                   failureCount, settleOrder, fate, startOrder, delays, signVars, storeVars, callVars>>

MailNext ==
    \/ VerifySucceeds
    \/ VerifyFails
    \/ StartBatch
    \/ \E p \in 1..Len(to) : SendSucceeds(p)
    \/ \E p \in 1..Len(to) : SendFails(p)
    \/ AwaitBatch
    \/ DelayElapses
    \/ Return

MailSpec == MailInit /\ [][MailNext]_vars

\* The batch (0-based) of the recipient at position p.
ChunkOf(p) == (p - 1) \div batchSize

\* The outcome recorded so far for a settled position.
RecordedOutcome(p) == IF p <= Len(results) THEN results[p] ELSE batchResults[p]

\* C6: a send that fails is recorded as the success=false outcome of its
\* recipient and stops nothing: the call does not throw, it can always go on,
\* and when it returns every recipient was attempted and has an outcome.
C6_FailureIsolated ==
    /\ (fate # <<>> => pc # "threw")
    /\ \A p \in DOMAIN fate :
          ~fate[p] => /\ RecordedOutcome(p).success = FALSE
                      /\ RecordedOutcome(p).to = to[p]
    /\ (pc \notin {"done", "threw"} => ENABLED MailNext)
    /\ (pc = "done" => \A p \in 1..Len(to) : p \in DOMAIN fate /\ p <= Len(returned.results))

\* Returned after a failure that was followed by a success in a later batch.
C6_Witness ==
    /\ pc = "done" /\ Len(to) >= 3
    /\ fate[Len(to)]
    /\ returned.results[Len(to)].success
    /\ \E p \in 1..Len(to), q \in 1..Len(to) :
          /\ p < q /\ ChunkOf(p) = ChunkOf(q) /\ ChunkOf(q) < ChunkOf(Len(to))
          /\ ~fate[p] /\ fate[q]
          /\ returned.results[p].success = FALSE

\* One outcome per recipient, each naming its recipient.
CompleteResult(r) ==
    /\ r.totalEmails = Len(to)
    /\ Len(r.results) = Len(to)
    /\ \A p \in 1..Len(to) : r.results[p].to = to[p]

C8_CountsAccurate ==
    /\ successCount = Cardinality({p \in DOMAIN fate : fate[p]})
    /\ failureCount = Cardinality({p \in DOMAIN fate : ~fate[p]})
    /\ pc = "done" =>
          /\ returned.totalEmails = Len(to)
          /\ Len(returned.results) = Len(to)
          /\ returned.successCount
               = Cardinality({p \in 1..Len(returned.results) : returned.results[p].success})
          /\ returned.failureCount
               = Cardinality({p \in 1..Len(returned.results) : ~returned.results[p].success})
          /\ returned.successCount + returned.failureCount = returned.totalEmails

\* Seven recipients in batches of three, the sends of the 2nd and 5th failing.
C8_Witness ==
    /\ pc = "done" /\ Len(to) = 7 /\ batchSize = 3
    /\ \A p \in 1..7 : fate[p] = (p \notin {2, 5})
    /\ returned.totalEmails = 7
    /\ returned.successCount = 5
    /\ returned.failureCount = 2

\* C9: the i-th entry of results is the outcome of the i-th recipient, in
\* whatever order the sends of a batch settle.
C9_ResultsInInputOrder ==
    /\ \A p \in 1..Len(results) : p \in DOMAIN fate /\ results[p] = Outcome(p, fate[p])
    /\ (pc = "done" => returned.results = results /\ Len(results) = Len(to))

\* Returned after a batch whose sends settled in another order than they started.
C9_Witness ==
    /\ pc = "done" /\ Len(to) > batchSize
    /\ \E a, b \in 1..Len(settleOrder) : a < b /\ settleOrder[a] > settleOrder[b]
    /\ \E p, q \in 1..Len(to) : fate[p] /\ ~fate[q]

\* C10: batches run one after another: while a send is in flight every send of
\* every earlier batch has settled, no send of a later batch has started, and at
\* most batchSize sends are in flight.
C10_BatchesSequential ==
    /\ Cardinality(pending) <= batchSize
    /\ \A p \in pending :
          /\ i < p /\ p <= i + batchSize
          /\ \A q \in 1..Len(to) :
                /\ ChunkOf(q) < ChunkOf(p) => q \in DOMAIN fate /\ q \notin pending
                /\ ChunkOf(q) > ChunkOf(p) => \A k \in 1..Len(startOrder) : startOrder[k] # q
    /\ \A k \in 1..Len(startOrder) : startOrder[k] = k

\* A full second batch in flight.
C10_Witness ==
    /\ pc = "sending" /\ i > 0 /\ batchSize >= 2
    /\ Cardinality(pending) = batchSize
    /\ Len(to) > i + batchSize

\* The number of chunks the loop cuts the recipient list into.
NumChunks == (Len(to) + batchSize - 1) \div batchSize

\* C11: with delayMs > 0, one delay is taken between the completion of every
\* chunk and the start of the next one and none after the last chunk: the chunk
\* being sent has been preceded by as many delays as chunks, a delay is only ever
\* waited for when another chunk is due, and a run that returns has taken one
\* delay fewer than it has chunks (none with one chunk or no recipient).
C11_DelayBetweenChunks ==
    delayMs > 0 =>
        /\ (pc = "delay" => i + batchSize < Len(to))
        /\ (pc = "sending" => delays = i \div batchSize)
        /\ (pc = "done" => delays = IF NumChunks = 0 THEN 0 ELSE NumChunks - 1)

\* A run of three chunks or more, the last one short, has returned.
C11_Witness ==
    /\ pc = "done" /\ delayMs > 0
    /\ NumChunks >= 3 /\ Len(to) % batchSize # 0
    /\ delays = NumChunks - 1

-----------------------------------------------------------------------------
(* GoogleSheetsService: the spreadsheet and the payment records            *)
(*                                                                         *)
(* A worksheet is its header and its rows; a row is the record of its      *)
(* cells, a blank cell being the empty string.  A row object obtained with *)
(* getRows holds a copy of the cells and the number of the row it came     *)
(* from; set changes the copy and save puts the copy back in that row.     *)

\* The header getOrCreateMonthlySheet gives a period sheet.
HeaderValues == <<"member_id", "member_email", "payment_link", "payment_link_sent",
                  "unique_payment_link", "paid", "paid_date">>
Columns == { HeaderValues[n] : n \in 1..Len(HeaderValues) }

\* The columns updatePaymentData and updatePaymentDataBatch set.
UpdatedColumns == {"payment_link", "payment_link_sent", "unique_payment_link", "paid",
                   "paid_date"}

AllMembersTitle == <<"A","l","l","_","m","e","m","b","e","r","s">>
MemberColumns   == <<"member_id", "member_email">>

\* String.prototype.padStart with a one-character filler.
RECURSIVE padStart(_, _, _)
padStart(s, targetLength, fill) ==
    IF Len(s) >= targetLength THEN s ELSE padStart(fill \o s, targetLength, fill)

\* `${now.getFullYear()}${(now.getMonth() + 1).toString().padStart(2, '0')}`
yyyymmOf(now) ==
    NatToString(now.fullYear) \o padStart(NatToString(now.month + 1), 2, <<"0">>)

\* The dates a call may be made on: one in a one-digit, one in a two-digit month.
Dates == { [fullYear |-> 2025, month |-> 7], [fullYear |-> 2025, month |-> 11] }
Periods == { yyyymmOf(now) : now \in Dates }

\* The rows of All_members: two members and a row whose e-mail cell is blank.
Member1 == [member_id |-> <<"m","1">>, member_email |-> <<"a","@","x">>]
Member2 == [member_id |-> <<"m","2">>, member_email |-> <<"b","@","x">>]
NoEmail == [member_id |-> <<"m","3">>, member_email |-> <<>>]
MemberIds == { Member1.member_id, Member2.member_id, NoEmail.member_id }
MemberLists == { <<>>, <<Member1>>, <<Member1, NoEmail, Member2>> }

\* The record generatePaymentLinks adds for a member.
NewRecord(member, yyyymm) ==
    [member_id           |-> member.member_id,
     member_email        |-> member.member_email,
     payment_link        |-> member.member_id \o <<"_">> \o yyyymm,
     payment_link_sent   |-> <<"N">>,
     unique_payment_link |-> <<>>,
     paid                |-> <<>>,
     paid_date           |-> <<>>]

\* An object literal cast to PaymentRecord: the fields given, the others undefined.
Partial(fields) ==
    [c \in Columns |-> IF c \in DOMAIN fields THEN JSString(fields[c]) ELSE JSUndefined]

\* The records sendPaymentLink writes after a send that succeeded or failed.
paymentRecordY == Partial([payment_link_sent |-> <<"Y">>])
paymentRecordN == Partial([payment_link_sent |-> <<"N">>])

\* The record getUniquePaymentLink writes.
randomString == <<"x","7","k","q">>
uniquePaymentLink(memberId, yyyymm) == memberId \o yyyymm \o randomString
paymentRecord(memberId, yyyymm) ==
    Partial([unique_payment_link |-> uniquePaymentLink(memberId, yyyymm), paid |-> <<"N">>])

\* A record with explicit empty strings.
ClearRecord == Partial([payment_link |-> <<>>, payment_link_sent |-> <<>>])

\* data.field != undefined
IsSet(v) == v.t \notin {"undefined", "null"}

\* The fields set only when their value is truthy: an empty string is skipped.
SetFieldsIfTruthy(cells, data) ==
    [c \in DOMAIN cells |->
        IF c \in UpdatedColumns /\ IsSet(data[c]) /\ data[c].s # <<>>
        THEN data[c].s ELSE cells[c]]

\* The five conditional targetRow.set calls.
SetFields(cells, data) ==
    [c \in DOMAIN cells |->
        IF c \in UpdatedColumns /\ IsSet(data[c]) THEN data[c].s ELSE cells[c]]

\* sheet.getRows(): one row object per row of the worksheet.
getRows(sheet) == [n \in 1..Len(sheet.rows) |-> [rowNumber |-> n, cells |-> sheet.rows[n]]]

\* rows.filter((r) => r.get('member_id') === memberId)[0], as an index into rows,
\* 0 standing for undefined.
FirstMatch(rows, memberId) ==
    LET M == { n \in 1..Len(rows) : rows[n].cells.member_id = memberId }
    IN IF M = {} THEN 0 ELSE CHOOSE n \in M : \A m \in M : n <= m

\* row.save(): the cells the row object holds are put in the row it came from.
save(doc, sheetName, row) == [doc EXCEPT ![sheetName].rows[row.rowNumber] = row.cells]

\* sheet.addRow(record)
addRow(doc, sheetName, record) ==
    [doc EXCEPT ![sheetName].rows = Append(@, record)]

\* doc.addSheet({title, headerValues})
addSheet(doc, title, headerValues) ==
    (title :> [headerValues |-> headerValues, rows |-> <<>>]) @@ doc

\* The errors raised.
SheetNotFound(sheetName) ==
    [name |-> "Error",
     message |-> <<"s","h","e","e","t",":">> \o sheetName \o <<" ","n","o","t"," ","f","o","u","n","d">>]
AllMembersNotFound ==
    [name |-> "Error",
     message |-> AllMembersTitle \o <<" ","s","h","e","e","t"," ","n","o","t"," ","f","o","u","n","d">>]
LengthMismatch ==
    [name |-> "Error",
     message |-> <<"i","d","L","e","n","g","t","h"," ","!","="," ","d","a","t","a","L","e","n","g","t","h">>]
ReadOfUndefined(property) == [name |-> "TypeError", reading |-> property]
SaveRejected == [name |-> "Error", rejected |-> "save"]
NoError == [none |-> TRUE]

\* The positions at which no call is under way.
AtRest == {"idle", "returned", "threw"}

\* No row object.
NoRow == [rowNumber |-> 0]

\* The property read on the undefined targetRow: set, when a field of data is
\* to be set, save otherwise.
ReadOnUndefined(data) ==
    IF \E c \in UpdatedColumns : IsSet(data[c]) THEN "set" ELSE "save"

\* updatePaymentData run with nothing in between, on the spreadsheet doc: the
\* spreadsheet it leaves and whether it threw.
UpdateOne(doc, sheetName, memberId, data) ==
    IF sheetName \notin DOMAIN doc THEN [doc |-> doc, threw |-> TRUE]
    ELSE LET rows == getRows(doc[sheetName])
             t    == FirstMatch(rows, memberId)
         IN IF t = 0 THEN [doc |-> doc, threw |-> TRUE]
            ELSE [doc   |-> save(doc, sheetName,
                                 [rows[t] EXCEPT !.cells = SetFields(@, data)]),
                  threw |-> FALSE]

\* The run that updates row by row takes the step of the other writer too.
SeqOtherUpdate ==
    IF seq = NoCall THEN seq
    ELSE [seq EXCEPT !.doc = UpdateOne(@, upd.sheetName, upd.memberId, upd.data).doc]

-----------------------------------------------------------------------------
(* GoogleSheetsService.updatePaymentData                                   *)

\* The call begins: the worksheet is looked up, and sheet.getRows() is called
\* unless the lookup failed.
UpdStart(sheetName, memberId, data) ==
    /\ upd.pc = "idle"
    /\ upd' = [pc        |-> IF sheetName \in DOMAIN sheetsByTitle THEN "getRows" ELSE "threw",
               sheetName |-> sheetName,
               memberId  |-> memberId,
               data      |-> data,
               row       |-> NoRow,
               err       |-> IF sheetName \in DOMAIN sheetsByTitle
                             THEN NoError ELSE SheetNotFound(sheetName)]
    /\ before' = sheetsByTitle
    /\ io' = 0
    /\ UNCHANGED <<sheetsByTitle, bat, gen, calls, seq, overlap, signVars, mailVars, callVars>>

\* getRows resolves: the first row of the member is picked, the fields of data
\* that are set are put in it and targetRow.save() is called.  With no such row
\* targetRow is undefined and the first property read on it throws.
UpdGetRows ==
    /\ upd.pc = "getRows"
    /\ LET rows == getRows(sheetsByTitle[upd.sheetName])
           t    == FirstMatch(rows, upd.memberId)
       IN upd' = IF t = 0
                 THEN [upd EXCEPT !.pc = "threw",
                                  !.err = ReadOfUndefined(ReadOnUndefined(upd.data))]
                 ELSE [upd EXCEPT !.pc = "save",
                                  !.row = [rows[t] EXCEPT !.cells = SetFields(@, upd.data)]]
    /\ io' = io + 1
    /\ UNCHANGED <<sheetsByTitle, bat, gen, calls, before, seq, overlap, signVars, mailVars, callVars>>

\* targetRow.save() resolves: the row object is written and the call returns.
UpdSaveLands ==
    /\ upd.pc = "save"
    /\ sheetsByTitle' = save(sheetsByTitle, upd.sheetName, upd.row)
    /\ upd' = [upd EXCEPT !.pc = "returned"]
    /\ io' = io + 1
    /\ seq' = SeqOtherUpdate
    /\ UNCHANGED <<bat, gen, calls, before, overlap, signVars, mailVars, callVars>>

\* targetRow.save() rejects: nothing is written and the call throws.
UpdSaveFails ==
    /\ upd.pc = "save"
    /\ upd' = [upd EXCEPT !.pc = "threw", !.err = SaveRejected]
    /\ io' = io + 1
    /\ UNCHANGED <<sheetsByTitle, bat, gen, calls, before, seq, overlap, signVars, mailVars, callVars>>

-----------------------------------------------------------------------------
(* GoogleSheetsService.updatePaymentDataBatch                              *)

\* The body of the loop from its head to the next await, for the frame b whose
\* i is the index of the pass: the loop ends, or targetRow is undefined and the
\* first property read on it throws, or the fields are set in the row object
\* (one of the rows fetched before the loop) and targetRow.save() is called.
LoopPass(b) ==
    IF b.i >= Len(b.memberIds) THEN [b EXCEPT !.pc = "returned"]
    ELSE LET t    == FirstMatch(b.rows, b.memberIds[b.i + 1])
             data == b.datas[b.i + 1]
         IN IF t = 0
            THEN [b EXCEPT !.pc = "threw", !.err = ReadOfUndefined(ReadOnUndefined(data))]
            ELSE [b EXCEPT !.pc = "save", !.target = t,
                           !.rows[t].cells = SetFields(@, data)]

\* The run that updates row by row, from position k (1-based) on: one
\* updatePaymentData per position, until one throws.
RECURSIVE SeqFrom(_, _, _, _, _)
SeqFrom(s, sheetName, memberIds, datas, k) ==
    IF s.threw \/ k > Len(memberIds) THEN s
    ELSE SeqFrom(UpdateOne(s.doc, sheetName, memberIds[k], datas[k]),
                 sheetName, memberIds, datas, k + 1)

\* That run takes the position the batch has just taken (b is the frame before
\* the pass, n the frame after it), and every later position once the batch has
\* thrown on a row it did not find.
SeqPass(b, n) ==
    IF seq = NoCall THEN seq
    ELSE IF n.pc = "threw"
         THEN SeqFrom(seq, b.sheetName, b.memberIds, b.datas, n.i + 1)
         ELSE seq

\* The call begins with the lengths not compared: getRows is called whenever the
\* worksheet exists.
BatStartUnchecked(sheetName, memberIds, datas) ==
    /\ bat.pc = "idle"
    /\ bat' = [pc        |-> IF sheetName \in DOMAIN sheetsByTitle THEN "getRows" ELSE "threw",
               sheetName |-> sheetName, memberIds |-> memberIds, datas |-> datas,
               rows      |-> <<>>, i |-> 0, target |-> 0,
               err       |-> IF sheetName \in DOMAIN sheetsByTitle
                             THEN NoError ELSE SheetNotFound(sheetName)]
    /\ before' = sheetsByTitle
    /\ io' = 0
    /\ UNCHANGED <<sheetsByTitle, upd, gen, calls, seq, overlap, signVars, mailVars, callVars>>

\* The call begins: the lengths are compared, then the worksheet is looked up,
\* and sheet.getRows() is called unless one of the two failed.
BatStart(sheetName, memberIds, datas) ==
    /\ bat.pc = "idle"
    /\ LET err == IF Len(memberIds) # Len(datas) THEN LengthMismatch
                  ELSE IF sheetName \notin DOMAIN sheetsByTitle THEN SheetNotFound(sheetName)
                  ELSE NoError
       IN bat' = [pc        |-> IF err = NoError THEN "getRows" ELSE "threw",
                  sheetName |-> sheetName, memberIds |-> memberIds, datas |-> datas,
                  rows      |-> <<>>, i |-> 0, target |-> 0, err |-> err]
    /\ before' = sheetsByTitle
    /\ io' = 0
    /\ UNCHANGED <<sheetsByTitle, upd, gen, calls, seq, overlap, signVars, mailVars, callVars>>

\* getRows resolves, once for the whole call, and the first pass of the loop runs.
BatGetRows ==
    /\ bat.pc = "getRows"
    /\ LET b == [bat EXCEPT !.rows = getRows(sheetsByTitle[bat.sheetName])]
       IN /\ bat' = LoopPass(b)
          /\ seq' = SeqPass(b, LoopPass(b))
    /\ io' = io + 1
    /\ UNCHANGED <<sheetsByTitle, upd, gen, calls, before, overlap, signVars, mailVars, callVars>>

\* targetRow.save() resolves: the row object is written, and the next pass of
\* the loop runs.
BatSaveLands ==
    /\ bat.pc = "save"
    /\ sheetsByTitle' = save(sheetsByTitle, bat.sheetName, bat.rows[bat.target])
    /\ LET b == [bat EXCEPT !.i = @ + 1]
           s == IF seq = NoCall \/ seq.threw THEN seq
                ELSE UpdateOne(seq.doc, bat.sheetName, bat.memberIds[bat.i + 1],
                               bat.datas[bat.i + 1])
       IN /\ bat' = LoopPass(b)
          /\ seq' = IF s = NoCall \/ LoopPass(b).pc # "threw" THEN s
                    ELSE SeqFrom(s, b.sheetName, b.memberIds, b.datas, b.i + 1)
    /\ io' = io + 1
    /\ overlap' = (overlap \/ upd.pc = "save")
    /\ UNCHANGED <<upd, gen, calls, before, signVars, mailVars, callVars>>

\* The failed save undone together with the saves before it.
BatSaveFailsRollsBack ==
    /\ bat.pc = "save"
    /\ sheetsByTitle' = before
    /\ bat' = [bat EXCEPT !.pc = "threw", !.err = SaveRejected]
    /\ io' = io + 1
    /\ seq' = IF seq = NoCall THEN seq ELSE [seq EXCEPT !.threw = TRUE]
    /\ UNCHANGED <<upd, gen, calls, before, overlap, signVars, mailVars, callVars>>

\* targetRow.save() rejects: nothing is written and the call throws.
BatSaveFails ==
    /\ bat.pc = "save"
    /\ bat' = [bat EXCEPT !.pc = "threw", !.err = SaveRejected]
    /\ io' = io + 1
    /\ seq' = IF seq = NoCall THEN seq ELSE [seq EXCEPT !.threw = TRUE]
    /\ UNCHANGED <<sheetsByTitle, upd, gen, calls, before, overlap, signVars, mailVars, callVars>>

-----------------------------------------------------------------------------
(* GoogleSheetsService.generatePaymentLinks                                *)

\* The most generatePaymentLinks calls made in a run.
MaxGenerateCalls == 2

\* getAllMembers: the rows mapped to their member_id and member_email, '' for a
\* blank cell, those with both kept.
getAllMembers(sheet) ==
    LET members == [n \in 1..Len(sheet.rows) |->
                       [member_id    |-> sheet.rows[n].member_id,
                        member_email |-> sheet.rows[n].member_email]]
    IN SelectSeq(members, LAMBDA m : m.member_id # <<>> /\ m.member_email # <<>>)

\* The worksheet of the period created whether or not there is one already.
getOrCreateMonthlySheetAlways(doc, yyyymm) == addSheet(doc, yyyymm, HeaderValues)

\* getOrCreateMonthlySheet: the spreadsheet after the call.
getOrCreateMonthlySheet(doc, yyyymm) ==
    IF yyyymm \notin DOMAIN doc THEN addSheet(doc, yyyymm, HeaderValues) ELSE doc

\* Where the for-of loop over members stands after k members.
AfterMember(g, k) ==
    [g EXCEPT !.k = k, !.pc = IF k < Len(g.members) THEN "addPaymentRecord" ELSE "returned"]

\* The call begins on the date now: getAllMembers looks All_members up and calls
\* getRows, or throws, which the catch rethrows.
GenStart(now) ==
    /\ gen.pc \in AtRest
    /\ calls < MaxGenerateCalls
    /\ calls' = calls + 1
    /\ gen' = [pc      |-> IF AllMembersTitle \in DOMAIN sheetsByTitle
                           THEN "getAllMembers" ELSE "threw",
               yyyymm  |-> yyyymmOf(now),
               members |-> <<>>,
               k       |-> 0,
               err     |-> IF AllMembersTitle \in DOMAIN sheetsByTitle
                           THEN NoError ELSE AllMembersNotFound]
    /\ before' = sheetsByTitle
    /\ io' = 0
    /\ UNCHANGED <<sheetsByTitle, upd, bat, seq, overlap, signVars, mailVars, callVars>>

\* getRows of All_members resolves: members is set and getOrCreateMonthlySheet
\* is called.
GenMembers ==
    /\ gen.pc = "getAllMembers"
    /\ gen' = [gen EXCEPT !.members = getAllMembers(sheetsByTitle[AllMembersTitle]),
                          !.pc = "getOrCreateMonthlySheet"]
    /\ io' = io + 1
    /\ UNCHANGED <<sheetsByTitle, upd, bat, calls, before, seq, overlap, signVars, mailVars, callVars>>

\* getOrCreateMonthlySheet resolves, and the loop over members is entered.
GenSheet ==
    /\ gen.pc = "getOrCreateMonthlySheet"
    /\ sheetsByTitle' = getOrCreateMonthlySheet(sheetsByTitle, gen.yyyymm)
    /\ gen' = AfterMember(gen, 0)
    /\ io' = IF gen.yyyymm \in DOMAIN sheetsByTitle THEN io ELSE io + 1
    /\ seq' = IF seq = NoCall THEN seq
              ELSE [seq EXCEPT !.doc = getOrCreateMonthlySheet(@, gen.yyyymm)]
    /\ UNCHANGED <<upd, bat, calls, before, overlap, signVars, mailVars, callVars>>

\* addPaymentRecord resolves for the member in turn: its record is appended.
GenAddRow ==
    /\ gen.pc = "addPaymentRecord"
    /\ sheetsByTitle' = addRow(sheetsByTitle, gen.yyyymm,
                               NewRecord(gen.members[gen.k + 1], gen.yyyymm))
    /\ gen' = AfterMember(gen, gen.k + 1)
    /\ io' = io + 1
    /\ seq' = IF seq = NoCall THEN seq
              ELSE [seq EXCEPT !.doc = addRow(@, gen.yyyymm,
                                              NewRecord(gen.members[gen.k + 1], gen.yyyymm))]
    /\ UNCHANGED <<upd, bat, calls, before, overlap, signVars, mailVars, callVars>>

-----------------------------------------------------------------------------
(* GoogleSheetsService.updatePaymentStatus                                 *)

\* The dates a payment may be confirmed on.
StatusDates == { [fullYear |-> 2025, month |-> 7, date |-> 3] }

\* new Date().toISOString().split('T')[0]
isoDateOf(now) ==
    NatToString(now.fullYear) \o <<"-">> \o padStart(NatToString(now.month + 1), 2, <<"0">>)
        \o <<"-">> \o padStart(NatToString(now.date), 2, <<"0">>)

StatusSheetNotFound(yyyymm) ==
    [name |-> "Error",
     message |-> <<"S","h","e","e","t"," ">> \o yyyymm \o <<" ","n","o","t"," ","f","o","u","n","d">>]

\* targetRow.set('paid', isPaid ? 'YES' : 'NO'), and paid_date when isPaid.
SetStatus(cells, isPaid, now) ==
    [cells EXCEPT !.paid = IF isPaid THEN <<"Y","E","S">> ELSE <<"N","O">>,
                  !.paid_date = IF isPaid THEN isoDateOf(now) ELSE @]

\* The call begins: the worksheet is looked up, and sheet.getRows() is called
\* unless the lookup failed.
StaStart(yyyymm, memberId, isPaid, now) ==
    /\ sta.pc = "idle"
    /\ sta' = [pc       |-> IF yyyymm \in DOMAIN sheetsByTitle THEN "getRows" ELSE "threw",
               yyyymm   |-> yyyymm,
               memberId |-> memberId,
               isPaid   |-> isPaid,
               now      |-> now,
               row      |-> NoRow,
               err      |-> IF yyyymm \in DOMAIN sheetsByTitle
                            THEN NoError ELSE StatusSheetNotFound(yyyymm)]
    /\ before' = sheetsByTitle
    /\ io' = 0
    /\ UNCHANGED <<sheetsByTitle, upd, bat, gen, calls, seq, overlap, lnk, body, form,
                   processed, signVars, mailVars>>

\* getRows resolves: rows.find picks the first row of the member; paid, and
\* paid_date when isPaid, are set in it and save is called.  With no such row the
\* call returns.
StaGetRows ==
    /\ sta.pc = "getRows"
    /\ LET rows == getRows(sheetsByTitle[sta.yyyymm])
           t    == FirstMatch(rows, sta.memberId)
       IN sta' = IF t = 0 THEN [sta EXCEPT !.pc = "returned"]
                 ELSE [sta EXCEPT !.pc = "save",
                                  !.row = [rows[t] EXCEPT
                                             !.cells = SetStatus(@, sta.isPaid, sta.now)]]
    /\ io' = io + 1
    /\ UNCHANGED <<sheetsByTitle, upd, bat, gen, calls, before, seq, overlap, lnk, body,
                   form, processed, signVars, mailVars>>

\* targetRow.save() resolves: the row object is written and the call returns.
StaSaveLands ==
    /\ sta.pc = "save"
    /\ sheetsByTitle' = save(sheetsByTitle, sta.yyyymm, sta.row)
    /\ sta' = [sta EXCEPT !.pc = "returned"]
    /\ io' = io + 1
    /\ UNCHANGED <<upd, bat, gen, calls, before, seq, overlap, lnk, body, form, processed,
                   signVars, mailVars>>

\* targetRow.save() rejects: nothing is written and the call throws.
StaSaveFails ==
    /\ sta.pc = "save"
    /\ sta' = [sta EXCEPT !.pc = "threw", !.err = SaveRejected]
    /\ io' = io + 1
    /\ UNCHANGED <<sheetsByTitle, upd, bat, gen, calls, before, seq, overlap, lnk, body,
                   form, processed, signVars, mailVars>>

-----------------------------------------------------------------------------
(* The service called by one caller at a time: generatePaymentLinks, up to *)
(* MaxGenerateCalls times, then one update of a row or of a batch of rows  *)

\* The longest memberIds and datas arrays drawn as input.
MaxBatchLen == 2

SeqsUpTo(S, n) == UNION { [1..m -> S] : m \in 0..n }

\* The records passed to updatePaymentData, and to updatePaymentDataBatch.
UpdateDatas(memberId, sheetName) ==
    { paymentRecordY, paymentRecordN, paymentRecord(memberId, sheetName), ClearRecord }
BatchDatas == { paymentRecordY, ClearRecord }

\* No call is under way, and no update has been made yet.
Quiescent ==
    /\ gen.pc \in AtRest
    /\ upd.pc = "idle" /\ bat.pc = "idle" /\ sta.pc = "idle"

\* The spreadsheet holds All_members, or nothing; no period sheet exists yet.
StoreInit ==
    /\ sheetsByTitle \in
         { <<>> } \cup
         { (AllMembersTitle :> [headerValues |-> MemberColumns, rows |-> members]) :
             members \in MemberLists }
    /\ upd = NoCall /\ bat = NoCall /\ gen = NoCall
    /\ calls = 0 /\ before = sheetsByTitle /\ io = 0
    /\ seq = NoCall /\ overlap = FALSE
    /\ params = <<>> /\ sig1 = NoSig /\ sig2 = NoSig
    /\ attached = NoSig /\ tampered = NoSig /\ verdict = NoSig
    /\ MailParked
    /\ CallsParked

StoreNext ==
    \/ \E now \in Dates : Quiescent /\ GenStart(now)
    \/ GenMembers
    \/ GenSheet
    \/ GenAddRow
    \/ \E sheetName \in Periods, memberId \in MemberIds :
         \E data \in UpdateDatas(memberId, sheetName) :
            Quiescent /\ UpdStart(sheetName, memberId, data)
    \/ UpdGetRows
    \/ UpdSaveLands
    \/ UpdSaveFails
    \/ \E sheetName \in Periods :
         \E memberIds \in SeqsUpTo(MemberIds, MaxBatchLen), datas \in SeqsUpTo(BatchDatas, MaxBatchLen) :
            Quiescent /\ BatStart(sheetName, memberIds, datas)
    \/ BatGetRows
    \/ BatSaveLands
    \/ BatSaveFails
    \/ \E yyyymm \in Periods, memberId \in MemberIds, isPaid \in BOOLEAN, now \in StatusDates :
         Quiescent /\ StaStart(yyyymm, memberId, isPaid, now)
    \/ StaGetRows
    \/ StaSaveLands
    \/ StaSaveFails

StoreSpec == StoreInit /\ [][StoreNext]_vars

-----------------------------------------------------------------------------
(* What the update operations leave in the spreadsheet                     *)

\* The last characters of s are those of suffix.
EndsWith(s, suffix) ==
    /\ Len(s) >= Len(suffix)
    /\ \A n \in 1..Len(suffix) : s[Len(s) - Len(suffix) + n] = suffix[n]

\* An error that reports something as not found.
IsNotFoundError(e) ==
    /\ e.name = "Error"
    /\ "message" \in DOMAIN e
    /\ EndsWith(e.message, <<" ","n","o","t"," ","f","o","u","n","d">>)

\* The first row of the member in the worksheet of that title, as the call
\* found the spreadsheet; 0 when the worksheet or the row is missing.
RowBefore(sheetName, memberId) ==
    IF sheetName \notin DOMAIN before THEN 0
    ELSE FirstMatch(getRows(before[sheetName]), memberId)

C13_MissingRowIsNotFound ==
    (upd.pc \in {"save", "returned", "threw"} /\ RowBefore(upd.sheetName, upd.memberId) = 0)
        => /\ upd.pc = "threw"
           /\ IsNotFoundError(upd.err)
           /\ sheetsByTitle = before

\* C14: updatePaymentDataBatch with memberIds and datas of different lengths
\* fails with the argument error before the spreadsheet is read or written, and
\* leaves it as it was.
C14_LengthMismatchFailsFirst ==
    (bat.pc # "idle" /\ Len(bat.memberIds) # Len(bat.datas))
        => /\ bat.pc = "threw"
           /\ bat.err = LengthMismatch
           /\ io = 0 /\ bat.rows = <<>>
           /\ sheetsByTitle = before

\* Two member ids and one record, for a worksheet that exists and has their rows.
C14_Witness ==
    /\ bat.pc = "threw"
    /\ Len(bat.memberIds) = 2 /\ Len(bat.datas) = 1
    /\ \A k \in 1..2 : RowBefore(bat.sheetName, bat.memberIds[k]) # 0

\* The spreadsheet after every position from k on (1-based) whose member has a
\* row was updated, the others skipped.
RECURSIVE SkippingFrom(_, _, _, _, _)
SkippingFrom(doc, sheetName, memberIds, datas, k) ==
    IF k > Len(memberIds) THEN doc
    ELSE SkippingFrom(UpdateOne(doc, sheetName, memberIds[k], datas[k]).doc,
                      sheetName, memberIds, datas, k + 1)

\* C15: in updatePaymentDataBatch a member id that matches no row aborts the
\* update of that position only: every later position whose member id matches a
\* row is still updated and saved.
C15_MissingRowSkipsOnePosition ==
    (bat.pc \in {"returned", "threw"} /\ bat.err # SaveRejected
       /\ Len(bat.memberIds) = Len(bat.datas) /\ bat.sheetName \in DOMAIN before)
        => sheetsByTitle = SkippingFrom(before, bat.sheetName, bat.memberIds, bat.datas, 1)

\* The spreadsheet after the first k positions of the batch were updated.
AfterPositions(k) ==
    SeqFrom([doc |-> before, threw |-> FALSE], bat.sheetName,
            SubSeq(bat.memberIds, 1, k), SubSeq(bat.datas, 1, k), 1).doc

\* C16: when updatePaymentDataBatch fails at position k, on the row lookup or on
\* the save, the updates of positions 0..k-1 stay (nothing is rolled back),
\* nothing of position k or later is written, and the call throws; it returns
\* only when every position was updated.
C16_PartialCompletionSurfaced ==
    /\ (bat.pc = "threw" /\ Len(bat.memberIds) = Len(bat.datas))
          => sheetsByTitle = AfterPositions(bat.i)
    /\ bat.pc = "returned"
          => /\ bat.i = Len(bat.memberIds)
             /\ \A k \in 1..Len(bat.memberIds) : RowBefore(bat.sheetName, bat.memberIds[k]) # 0
             /\ sheetsByTitle = AfterPositions(Len(bat.memberIds))

\* The save of the second position was rejected after the first position had
\* changed its row.
C16_Witness ==
    /\ bat.pc = "threw" /\ bat.err = SaveRejected
    /\ bat.i = 1 /\ Len(bat.memberIds) = 2
    /\ bat.memberIds[1] # bat.memberIds[2]
    /\ sheetsByTitle # before

\* C19: getOrCreateMonthlySheet is idempotent: it creates the worksheet of the
\* period, with the seven-column header and no row, only when no worksheet has
\* that title; called where one exists it leaves every header and every row as
\* they are.
C19_GetOrCreateIdempotent ==
    [][gen.pc = "getOrCreateMonthlySheet" /\ gen'.pc # gen.pc =>
          /\ getOrCreateMonthlySheet(sheetsByTitle', gen.yyyymm) = sheetsByTitle'
          /\ IF gen.yyyymm \in DOMAIN sheetsByTitle
             THEN sheetsByTitle' = sheetsByTitle
             ELSE /\ DOMAIN sheetsByTitle' = DOMAIN sheetsByTitle \cup {gen.yyyymm}
                  /\ \A title \in DOMAIN sheetsByTitle : sheetsByTitle'[title] = sheetsByTitle[title]
                  /\ sheetsByTitle'[gen.yyyymm].headerValues = HeaderValues
                  /\ Len(sheetsByTitle'[gen.yyyymm].headerValues) = 7
                  /\ sheetsByTitle'[gen.yyyymm].rows = <<>>]_vars

\* A second call for the same period has gone through getOrCreateMonthlySheet
\* where the worksheet held rows.
C19_Witness ==
    /\ calls = 2 /\ gen.pc = "addPaymentRecord" /\ gen.k = 0
    /\ Len(sheetsByTitle[gen.yyyymm].rows) >= 2

\* C20: whatever generatePaymentLinks calls were made, every period sheet holds
\* at most one row per member_id.
C20_OneRowPerMember ==
    \A title \in DOMAIN sheetsByTitle \ {AllMembersTitle} :
        \A n, m \in 1..Len(sheetsByTitle[title].rows) :
            sheetsByTitle[title].rows[n].member_id = sheetsByTitle[title].rows[m].member_id
                => n = m

-----------------------------------------------------------------------------
(* The service called by several callers at once: generatePaymentLinks,    *)
(* the updatePaymentDataBatch of sendPaymentLink and the updatePaymentData *)
(* of getUniquePaymentLink, each once, their awaits interleaved            *)

\* The date of the calls.
Today == [fullYear |-> 2025, month |-> 7]

\* The members whose rows are updated.
ListedIds == { Member1.member_id, Member2.member_id }

\* The records sendPaymentLink passes, one per member id.
SentDatas == { paymentRecordY, paymentRecordN }

RaceInit ==
    /\ sheetsByTitle \in
         { (AllMembersTitle :> [headerValues |-> MemberColumns, rows |-> members]) :
             members \in MemberLists \ {<<>>} }
    /\ upd = NoCall /\ bat = NoCall /\ gen = NoCall
    /\ calls = 0 /\ before = sheetsByTitle /\ io = 0
    /\ seq = [doc |-> sheetsByTitle, threw |-> FALSE] /\ overlap = FALSE
    /\ params = <<>> /\ sig1 = NoSig /\ sig2 = NoSig
    /\ attached = NoSig /\ tampered = NoSig /\ verdict = NoSig
    /\ MailParked
    /\ CallsParked

RaceNext ==
    \/ calls = 0 /\ GenStart(Today)
    \/ GenMembers
    \/ GenSheet
    \/ GenAddRow
    \/ \E memberId \in ListedIds :
         UpdStart(yyyymmOf(Today), memberId, paymentRecord(memberId, yyyymmOf(Today)))
    \/ UpdGetRows
    \/ UpdSaveLands
    \/ UpdSaveFails
    \/ \E n \in 0..MaxBatchLen :
         \E memberIds \in [1..n -> ListedIds], datas \in [1..n -> SentDatas] :
            BatStart(yyyymmOf(Today), memberIds, datas)
    \/ BatGetRows
    \/ BatSaveLands
    \/ BatSaveFails

RaceSpec == RaceInit /\ [][RaceNext]_vars

\* C17: updatePaymentDataBatch leaves the spreadsheet that one updatePaymentData
\* per position, in order, each fetching the row afresh, leaves: with the other
\* writers acting between the same iterations of both, the two spreadsheets are
\* equal when the call ends, member ids given more than once included.
C17_BatchEqualsRowByRow ==
    (bat.pc \in {"returned", "threw"} /\ ~overlap) => sheetsByTitle = seq.doc

\* The last position of the batch that names the member.
LastPositionOf(memberId) ==
    CHOOSE k \in 1..Len(bat.memberIds) :
        /\ bat.memberIds[k] = memberId
        /\ \A j \in (k + 1)..Len(bat.memberIds) : bat.memberIds[j] # memberId

\* C18: two updates of the same row that set disjoint fields, run concurrently,
\* are both present in the row when both have returned, however their fetches
\* and saves interleave: payment_link_sent as sendPaymentLink set it, and
\* unique_payment_link and paid as getUniquePaymentLink set them.
C18_DisjointUpdatesBothKept ==
    (/\ bat.pc = "returned" /\ upd.pc = "returned"
     /\ \E k \in 1..Len(bat.memberIds) : bat.memberIds[k] = upd.memberId)
        => LET sheet == sheetsByTitle[upd.sheetName]
               row   == sheet.rows[FirstMatch(getRows(sheet), upd.memberId)]
           IN /\ row.payment_link_sent
                   = bat.datas[LastPositionOf(upd.memberId)].payment_link_sent.s
              /\ row.unique_payment_link = upd.data.unique_payment_link.s
              /\ row.paid = upd.data.paid.s

-----------------------------------------------------------------------------
(* What the operations leave in the paid column                            *)

\* C21: in every spreadsheet reached, the paid cell of every payment record is
\* 'Y', 'N' or blank, whatever generatePaymentLinks, getUniquePaymentLink,
\* sendPaymentLink and updatePaymentStatus calls were made.
C21_PaidIsYNOrBlank ==
    \A title \in DOMAIN sheetsByTitle \ {AllMembersTitle} :
        \A n \in 1..Len(sheetsByTitle[title].rows) :
            sheetsByTitle[title].rows[n].paid \in { <<"Y">>, <<"N">>, <<>> }

\* The values the record getUniquePaymentLink updates had when the call began,
\* and has now.
IssuedBefore == before[upd.sheetName].rows[RowBefore(upd.sheetName, upd.memberId)]
IssuedAfter  == sheetsByTitle[upd.sheetName].rows[RowBefore(upd.sheetName, upd.memberId)]

\* C22: the update getUniquePaymentLink makes changes only unique_payment_link:
\* payment_link, payment_link_sent, paid and paid_date of the member's record
\* are after the call what they were before it.
C22_IssuanceChangesOnlyUniqueLink ==
    (upd.pc = "returned" /\ upd.data = paymentRecord(upd.memberId, upd.sheetName))
        => \A c \in Columns \ {"unique_payment_link"} : IssuedAfter[c] = IssuedBefore[c]


-----------------------------------------------------------------------------
(* Order ids and the payment form: generateMerchantTradeNo, the id         *)
(* getUniquePaymentLink builds, createPaymentForm                          *)

\* ECPay limitation: max 20 characters.
MaxTradeNoLength == 20

\* String.prototype.substring(0, end)
substring0(s, end) == SubSeq(s, 1, IF end < Len(s) THEN end ELSE Len(s))

\* String.prototype.split(sep) for a one-character separator.
RECURSIVE split(_, _)
split(s, sep) ==
    IF \A n \in 1..Len(s) : s[n] # sep THEN <<s>>
    ELSE LET n == CHOOSE m \in 1..Len(s) : s[m] = sep /\ \A j \in 1..(m - 1) : s[j] # sep
         IN <<SubSeq(s, 1, n - 1)>> \o split(SubSeq(s, n + 1, Len(s)), sep)

\* parts[n] of an array (0-based): undefined past its end.
At(parts, n) == IF n + 1 <= Len(parts) THEN JSString(parts[n + 1]) ELSE JSUndefined

\* Date.now() in decimal digits.
Timestamps == { <<"1","7","5","4","2","0","0","0","0","0","0","0","0">> }
\* Math.floor(Math.random() * 1000)
Randoms == { 7, 999 }
\* The prefix argument: the default, one that fills the id to the limit, one
\* that overflows it.
Prefixes == { <<"T">>, <<"D","U","E","S">>, <<"U","N","I","O","N">> }

\* ECPayService.generateMerchantTradeNo
generateMerchantTradeNo(prefix, timestamp, random) ==
    LET tradeNo == prefix \o timestamp \o padStart(NatToString(random), 3, <<"0">>)
    IN substring0(tradeNo, MaxTradeNoLength)

\* generateMerchantTradeNo without its substring.
generateMerchantTradeNoWhole(prefix, timestamp, random) ==
    prefix \o timestamp \o padStart(NatToString(random), 3, <<"0">>)

\* The paymentLink a client asks a unique link for: those generatePaymentLinks
\* writes for a short and for a long member id, and one without separator.
PaymentLinks == { <<"m","1","_","2","0","2","5","0","8">>, <<"m","e","m","b","e","r","0","0","0","0","1","1","_","2","0","2","5","0","8">>, <<"m","1">> }

\* getUniquePaymentLink: memberId, paymentLinkYYYYMM and uniquePaymentLink.
uniquePaymentLinkOf(paymentLink) ==
    LET memberId          == At(split(paymentLink, "_"), 0)
        paymentLinkYYYYMM == At(split(paymentLink, "_"), 1)
    IN TemplateString(memberId) \o TemplateString(paymentLinkYYYYMM) \o randomString

\* config.ecpay.merchantId (ECPAY_MERCHANT_ID of the environment).
merchantId == <<"2","0","0","0","1","3","2">>

MerchantIDKey        == <<"M","e","r","c","h","a","n","t","I","D">>
MerchantTradeNoKey   == <<"M","e","r","c","h","a","n","t","T","r","a","d","e","N","o">>
MerchantTradeDateKey == <<"M","e","r","c","h","a","n","t","T","r","a","d","e","D","a","t","e">>
PaymentTypeKey       == <<"P","a","y","m","e","n","t","T","y","p","e">>
TotalAmountKey       == <<"T","o","t","a","l","A","m","o","u","n","t">>
TradeDescKey         == <<"T","r","a","d","e","D","e","s","c">>
ItemNameKey          == <<"I","t","e","m","N","a","m","e">>
ReturnURLKey         == <<"R","e","t","u","r","n","U","R","L">>
ChoosePaymentKey     == <<"C","h","o","o","s","e","P","a","y","m","e","n","t">>
EncryptTypeKey       == <<"E","n","c","r","y","p","t","T","y","p","e">>

\* The fields createPaymentForm signs.
SignedKeys ==
    { MerchantIDKey, MerchantTradeNoKey, MerchantTradeDateKey, PaymentTypeKey,
      TotalAmountKey, TradeDescKey, ItemNameKey, ReturnURLKey, ChoosePaymentKey,
      EncryptTypeKey }

\* The moments a payment is created at.
TradeMoments ==
    { [fullYear |-> 2025, month |-> 7, date |-> 3, hours |-> 9, minutes |-> 5, seconds |-> 0] }

\* ECPayService.generateTradeDate: YYYY/MM/DD HH:mm:ss
generateTradeDate(now) ==
    NatToString(now.fullYear) \o <<"/">> \o padStart(NatToString(now.month + 1), 2, <<"0">>)
        \o <<"/">> \o padStart(NatToString(now.date), 2, <<"0">>) \o <<" ">>
        \o padStart(NatToString(now.hours), 2, <<"0">>) \o <<":">>
        \o padStart(NatToString(now.minutes), 2, <<"0">>) \o <<":">>
        \o padStart(NatToString(now.seconds), 2, <<"0">>)

\* paymentParams2 of createPaymentForm, in the order of the object literal.
paymentParams2(p, tradeDate) ==
    << [k |-> MerchantIDKey,        v |-> JSString(merchantId)],
       [k |-> MerchantTradeNoKey,   v |-> JSString(p.merchantTradeNo)],
       [k |-> MerchantTradeDateKey, v |-> JSString(tradeDate)],
       [k |-> PaymentTypeKey,       v |-> JSString(<<"a","i","o">>)],
       [k |-> TotalAmountKey,       v |-> JSNumber(p.totalAmount)],
       [k |-> TradeDescKey,         v |-> JSString(p.tradeDesc)],
       [k |-> ItemNameKey,          v |-> JSString(p.itemName)],
       [k |-> ReturnURLKey,         v |-> JSString(p.returnURL)],
       [k |-> ChoosePaymentKey,     v |-> JSString(<<"A","L","L">>)],
       [k |-> EncryptTypeKey,       v |-> JSNumber(1)] >>

\* The ReturnURL written into the form.
FormReturnURL == <<"h","t","t","p","s",":","/","/","w","w","w",".","e","c","p","a","y",".","c","o","m",".","t","w","/","r","e","c","e","i","v","e",".","p","h","p">>

\* The input elements of the html form, in the order of the template: the text
\* put after value= and whether the template quotes it.
FormInputs(p, tradeDate, checkMacValue) ==
    << [name |-> ChoosePaymentKey,     text |-> <<"A","L","L">>,  quoted |-> TRUE],
       [name |-> EncryptTypeKey,       text |-> <<"1">>,           quoted |-> TRUE],
       [name |-> ItemNameKey,          text |-> p.itemName,        quoted |-> FALSE],
       [name |-> MerchantIDKey,        text |-> merchantId,        quoted |-> FALSE],
       [name |-> MerchantTradeDateKey, text |-> tradeDate,         quoted |-> FALSE],
       [name |-> MerchantTradeNoKey,   text |-> p.merchantTradeNo, quoted |-> FALSE],
       [name |-> PaymentTypeKey,       text |-> <<"a","i","o">>,   quoted |-> TRUE],
       [name |-> ReturnURLKey,         text |-> FormReturnURL,     quoted |-> TRUE],
       [name |-> TotalAmountKey,       text |-> NatToString(p.totalAmount), quoted |-> FALSE],
       [name |-> TradeDescKey,         text |-> p.tradeDesc,       quoted |-> FALSE],
       [name |-> CheckMacValueKey,     text |-> checkMacValue,     quoted |-> FALSE] >>

\* The value an html parser reads for an attribute: a quoted value whole, an
\* unquoted one up to the first white space or '>'.
AttributeValue(input) ==
    IF input.quoted \/ \A n \in 1..Len(input.text) : input.text[n] \notin {" ", ">"}
    THEN input.text
    ELSE LET n == CHOOSE m \in 1..Len(input.text) :
                      /\ input.text[m] \in {" ", ">"}
                      /\ \A j \in 1..(m - 1) : input.text[j] \notin {" ", ">"}
         IN SubSeq(input.text, 1, n - 1)

\* The value the form submits under a name.
FormValue(inputs, name) ==
    AttributeValue(inputs[CHOOSE n \in 1..Len(inputs) : inputs[n].name = name])

\* ECPayService.createPaymentForm: the object signed, the object with its
\* CheckMacValue, the form and tradeNo; or the Error rethrown by the catch.
createPaymentForm(p, now) ==
    LET tradeDate     == generateTradeDate(now)
        fed           == paymentParams2(p, tradeDate)
        checkMacValue == generateCheckMacValueGit(fed)
    IN IF checkMacValue.threw
       THEN [threw |-> TRUE, fed |-> fed]
       ELSE [threw |-> FALSE, fed |-> fed,
             signed |-> SetProp(fed, CheckMacValueKey, JSString(checkMacValue.hash)),
             inputs |-> FormInputs(p, tradeDate, checkMacValue.hash),
             tradeNo |-> p.merchantTradeNo]

\* config.ecpay.totalAmount, tradeDesc, itemName, returnURL of the environment;
\* returnURL is '' when ECPAY_RETURN_URL is not set.
TotalAmounts == { 100, 1500 }
TradeDescs   == { <<"d","u","e","s">> }
ItemNames    == { <<"f","e","e">>, <<"f","e","e","(","A",")">>, <<LoneSurrogate>> }
ReturnURLs   == { <<>>, FormReturnURL, <<"h","t","t","p","s",":","/","/","u",".","t","w","/","c","b">> }

PayInit ==
    /\ form = NoSig
    /\ params = <<>> /\ sig1 = NoSig /\ sig2 = NoSig
    /\ attached = NoSig /\ tampered = NoSig /\ verdict = NoSig
    /\ MailParked
    /\ StoreParked
    /\ sta = NoCall /\ lnk = NoCall /\ body = NoCall /\ processed = NoSig

\* A caller takes an order id from generateMerchantTradeNo.
TakeTradeNo(prefix, timestamp, random) ==
    /\ form = NoSig
    /\ form' = [stage |-> "id", via |-> "generateMerchantTradeNo",
                whole |-> generateMerchantTradeNoWhole(prefix, timestamp, random),
                merchantTradeNo |-> generateMerchantTradeNo(prefix, timestamp, random)]
    /\ UNCHANGED <<signVars, mailVars, storeVars, sta, lnk, body, processed>>

\* getUniquePaymentLink builds the order id of the link asked for.
BuildUniquePaymentLink(paymentLink) ==
    /\ form = NoSig
    /\ form' = [stage |-> "id", via |-> "getUniquePaymentLink",
                whole |-> uniquePaymentLinkOf(paymentLink),
                merchantTradeNo |-> uniquePaymentLinkOf(paymentLink)]
    /\ UNCHANGED <<signVars, mailVars, storeVars, sta, lnk, body, processed>>

\* createPaymentForm is called with the order id.
CreatePaymentForm(totalAmount, tradeDesc, itemName, returnURL, now) ==
    /\ form # NoSig /\ form.stage = "id"
    /\ LET p == [merchantTradeNo |-> form.merchantTradeNo, totalAmount |-> totalAmount,
                 tradeDesc |-> tradeDesc, itemName |-> itemName, returnURL |-> returnURL]
       IN form' = [stage |-> "created", via |-> form.via, whole |-> form.whole,
                   merchantTradeNo |-> form.merchantTradeNo,
                   p |-> p, out |-> createPaymentForm(p, now)]
    /\ UNCHANGED <<signVars, mailVars, storeVars, sta, lnk, body, processed>>

\* The parameters built, with their CheckMacValue, are given to verifyCallback.
VerifyForm ==
    /\ form # NoSig /\ form.stage = "created" /\ ~form.out.threw
    /\ verdict = NoSig
    /\ verdict' = [input |-> form.out.signed, out |-> verifyCallback(form.out.signed)]
    /\ UNCHANGED <<params, sig1, sig2, attached, tampered, mailVars, storeVars, callVars>>

PayNext ==
    \/ \E prefix \in Prefixes, timestamp \in Timestamps, random \in Randoms :
         TakeTradeNo(prefix, timestamp, random)
    \/ \E paymentLink \in PaymentLinks : BuildUniquePaymentLink(paymentLink)
    \/ \E totalAmount \in TotalAmounts, tradeDesc \in TradeDescs, itemName \in ItemNames,
          returnURL \in ReturnURLs, now \in TradeMoments :
         CreatePaymentForm(totalAmount, tradeDesc, itemName, returnURL, now)
    \/ VerifyForm

PaySpec == PayInit /\ [][PayNext]_vars

Created == form # NoSig /\ form.stage = "created" /\ ~form.out.threw

\* C23: every order id placed into a payment request is at most 20 characters
\* long: an id of at most 20 characters is used as it is and a longer one is cut
\* to its first 20 characters, whether it comes from generateMerchantTradeNo or
\* from getUniquePaymentLink.
C23_TradeNoAtMostTwenty ==
    Created =>
        LET id == GetProp(form.out.fed, MerchantTradeNoKey).s
        IN /\ Len(id) <= MaxTradeNoLength
           /\ id = substring0(form.whole, MaxTradeNoLength)

\* C24: the form returned by createPaymentForm submits every signed field with
\* the value that was signed.
C24_FormEmbedsSignedValues ==
    Created =>
        \A key \in SignedKeys :
            FormValue(form.out.inputs, key) = TemplateString(GetProp(form.out.fed, key))

\* C29: the two signers build the same canonical string for the parameters of
\* createPaymentForm, and verifyCallback accepts these parameters with the
\* CheckMacValue createPaymentForm attached.
C29_VerifierAcceptsFormSignature ==
    (Created /\ verdict # NoSig) =>
        /\ generateCheckMacValueGit(form.out.fed).canon
             = generateCheckMacValue(form.out.fed).canon
        /\ verdict.out.value

-----------------------------------------------------------------------------
(* The canonical string of the signers                                     *)

\* key=value for every key of the sorted list.
RECURSIVE AllPairs(_, _)
AllPairs(obj, sortedKeys) ==
    IF sortedKeys = <<>> THEN <<>>
    ELSE << Head(sortedKeys) \o <<"=">> \o TemplateString(GetProp(obj, Head(sortedKeys))) >>
         \o AllPairs(obj, Tail(sortedKeys))

\* HashKey=<key>&<pairs>&HashIV=<iv> over every key but CheckMacValue, sorted.
WrappedPairs(obj) ==
    HashKeyPrefix \o hashKey \o <<"&">>
        \o Join(AllPairs(obj, SortKeys(ObjectKeys(RestWithout(obj, CheckMacValueKey)))), <<"&">>)
        \o <<"&">> \o HashIVPrefix \o hashIV

\* An object with a key to sign, whose values are all strings or numbers.
PlainObject(obj) ==
    /\ obj # NullData
    /\ RestWithout(obj, CheckMacValueKey) # <<>>
    /\ \A n \in 1..Len(obj) : obj[n].v.t \in {"string", "number"}

\* C26: the canonical string a signer builds holds one key=value pair for every
\* key of the object other than CheckMacValue, in sorted key order, a key whose
\* value is the empty string included, wrapped as
\* HashKey=<key>&<pairs>&HashIV=<iv>.
C26_CanonHoldsEveryKey ==
    (sig1 # NoSig /\ PlainObject(sig1.input) /\ ~sig1.out.threw)
        => sig1.out.canon = WrappedPairs(sig1.input)

-----------------------------------------------------------------------------
(* processCallback                                                         *)

\* C27: processCallback reports isSuccess = true exactly when verifyCallback
\* accepts the callback and its RtnCode is 1: no result has isValid = false
\* together with isSuccess = true.
C27_SuccessOnlyIfValid ==
    (processed # NoSig /\ ~processed.out.threw) =>
        /\ processed.out.isSuccess
             <=> (/\ verifyCallback(processed.input).value
                  /\ GetProp(processed.input, RtnCodeKey) = JSNumber(1))
        /\ ~(~processed.out.isValid /\ processed.out.isSuccess)

-----------------------------------------------------------------------------
(* ApiHandler.sendPaymentLink: the period sheet is read, the links are     *)
(* mailed, the outcome of every mail is written back                       *)

\* getAllPaymentDatas keeping every row that has a member_id.
getAllPaymentDatasIdOnly(sheet) ==
    LET records == [n \in 1..Len(sheet.rows) |->
                       [c \in Columns |-> sheet.rows[n][c]]]
    IN SelectSeq(records, LAMBDA member : member.member_id # <<>>)

\* getAllPaymentDatas: the rows mapped to records, '' for a blank cell, those
\* with both member_id and member_email kept.
getAllPaymentDatas(sheet) ==
    LET records == [n \in 1..Len(sheet.rows) |->
                       [c \in Columns |-> sheet.rows[n][c]]]
    IN SelectSeq(records, LAMBDA member : member.member_id # <<>> /\ member.member_email # <<>>)

\* A row of a period sheet whose member_id cell is blank.
BlankIdRecord(yyyymm) == [NewRecord(Member2, yyyymm) EXCEPT !.member_id = <<>>]

\* The rows the sheet of the period may hold before any call: none, or a row
\* without e-mail address, a complete row and a row without member id.
PeriodRowLists(yyyymm) ==
    { <<>>, << NewRecord(NoEmail, yyyymm), NewRecord(Member1, yyyymm), BlankIdRecord(yyyymm) >> }

\* batchEmailDatas, as far as the outcome depends on it.
batchEmailDatas(paymentDatas) ==
    [n \in 1..Len(paymentDatas) |->
        [to |-> paymentDatas[n].member_email, member_id |-> paymentDatas[n].member_id]]

\* The reduce over result.results: memberIds and datas.
ResultMemberIds(outcomes) == [n \in 1..Len(outcomes) |-> outcomes[n].member_id]
ResultDatas(outcomes) ==
    [n \in 1..Len(outcomes) |-> IF outcomes[n].success THEN paymentRecordY ELSE paymentRecordN]

LinkInit ==
    /\ \E members \in MemberLists :
         \/ sheetsByTitle = (AllMembersTitle :> [headerValues |-> MemberColumns, rows |-> members])
         \/ \E rows \in PeriodRowLists(yyyymmOf(Today)) :
              sheetsByTitle =
                  (yyyymmOf(Today) :> [headerValues |-> HeaderValues, rows |-> rows])
                  @@ (AllMembersTitle :> [headerValues |-> MemberColumns, rows |-> members])
    /\ upd = NoCall /\ bat = NoCall /\ gen = NoCall
    /\ calls = 0 /\ before = sheetsByTitle /\ io = 0
    /\ seq = NoCall /\ overlap = FALSE
    /\ params = <<>> /\ sig1 = NoSig /\ sig2 = NoSig
    /\ attached = NoSig /\ tampered = NoSig /\ verdict = NoSig
    /\ MailParked
    /\ CallsParked

\* sendPaymentLink begins on the date now: getAllPaymentDatas looks the sheet of
\* the period up and calls getRows, or throws.
LnkStart(now) ==
    /\ lnk.pc = "idle"
    /\ gen.pc \in AtRest
    /\ lnk' = [pc           |-> IF yyyymmOf(now) \in DOMAIN sheetsByTitle
                                THEN "getRows" ELSE "threw",
               yyyymm       |-> yyyymmOf(now),
               doc          |-> sheetsByTitle,
               paymentDatas |-> <<>>,
               outcomes     |-> <<>>,
               err          |-> IF yyyymmOf(now) \in DOMAIN sheetsByTitle
                                THEN NoError ELSE SheetNotFound(yyyymmOf(now))]
    /\ UNCHANGED <<signVars, mailVars, storeVars, sta, body, form, processed>>

\* getRows resolves: paymentDatas is set and the batch send is called.
LnkGetRows ==
    /\ lnk.pc = "getRows"
    /\ lnk' = [lnk EXCEPT !.paymentDatas = getAllPaymentDatas(sheetsByTitle[lnk.yyyymm]),
                          !.pc = "sending"]
    /\ UNCHANGED <<signVars, mailVars, storeVars, sta, body, form, processed>>

\* The batch send settles the mail of the next recipient, accepted by the
\* transport or not; its outcome joins the results in the order of submission.
LnkSendSettles(success) ==
    /\ lnk.pc = "sending"
    /\ Len(lnk.outcomes) < Len(lnk.paymentDatas)
    /\ LET d == batchEmailDatas(lnk.paymentDatas)[Len(lnk.outcomes) + 1]
       IN lnk' = [lnk EXCEPT !.outcomes =
                     Append(@, [to |-> d.to, member_id |-> d.member_id, success |-> success])]
    /\ UNCHANGED <<signVars, mailVars, storeVars, sta, body, form, processed>>

\* The batch send returns its result, every mail settled.
LnkSendReturns ==
    /\ lnk.pc = "sending"
    /\ Len(lnk.outcomes) = Len(lnk.paymentDatas)
    /\ lnk' = [lnk EXCEPT !.pc = "sent"]
    /\ UNCHANGED <<signVars, mailVars, storeVars, sta, body, form, processed>>

\* updatePaymentDataBatch is called with the member ids and records reduced from
\* the result.
LnkUpdate ==
    /\ lnk.pc = "sent"
    /\ BatStart(lnk.yyyymm, ResultMemberIds(lnk.outcomes), ResultDatas(lnk.outcomes))

\* updatePaymentDataBatch has resolved: the response 200 is returned.
LnkReturn ==
    /\ lnk.pc = "sent" /\ bat.pc = "returned"
    /\ lnk' = [lnk EXCEPT !.pc = "returned"]
    /\ UNCHANGED <<signVars, mailVars, storeVars, sta, body, form, processed>>

\* updatePaymentDataBatch has thrown: sendPaymentLink rejects with its error.
LnkRejects ==
    /\ lnk.pc = "sent" /\ bat.pc = "threw"
    /\ lnk' = [lnk EXCEPT !.pc = "threw", !.err = bat.err]
    /\ UNCHANGED <<signVars, mailVars, storeVars, sta, body, form, processed>>

LinkNext ==
    \/ lnk.pc = "idle" /\ GenStart(Today)
    \/ GenMembers
    \/ GenSheet
    \/ GenAddRow
    \/ LnkStart(Today)
    \/ LnkGetRows
    \/ \E success \in BOOLEAN : LnkSendSettles(success)
    \/ LnkSendReturns
    \/ LnkUpdate
    \/ BatGetRows
    \/ BatSaveLands
    \/ BatSaveFails
    \/ LnkReturn
    \/ LnkRejects

LinkSpec == LinkInit /\ [][LinkNext]_vars

\* The positions of the rows that have both a member id and an e-mail address.
Complete(rows) ==
    { n \in 1..Len(rows) : rows[n].member_id # <<>> /\ rows[n].member_email # <<>> }

\* The k-th of these positions.
KthComplete(rows, k) ==
    CHOOSE n \in Complete(rows) : Cardinality({ m \in Complete(rows) : m <= n }) = k

\* out lists, in the order of the sheet, the columns cols of the complete rows.
ListsComplete(out, rows, cols) ==
    /\ Len(out) = Cardinality(Complete(rows))
    /\ \A k \in 1..Len(out) :
         /\ DOMAIN out[k] = cols
         /\ \A c \in cols : out[k][c] = rows[KthComplete(rows, k)][c]

\* C25: getAllPaymentDatas, and getAllMembers for All_members, return in sheet
\* order exactly the rows whose member_id and member_email are both non-empty,
\* without an error, and leave the spreadsheet as it was.
C25_ReadsReturnCompleteRows ==
    /\ lnk.pc = "sending" =>
         /\ ListsComplete(lnk.paymentDatas, sheetsByTitle[lnk.yyyymm].rows, Columns)
         /\ sheetsByTitle = lnk.doc
    /\ gen.pc = "getOrCreateMonthlySheet" =>
         /\ ListsComplete(gen.members, sheetsByTitle[AllMembersTitle].rows,
                          {"member_id", "member_email"})
         /\ sheetsByTitle = before

\* getAllPaymentDatas has returned one row of a sheet that also holds a row
\* without e-mail address and a row without member id.
C25_Witness ==
    /\ lnk.pc = "sending"
    /\ Len(lnk.paymentDatas) >= 1
    /\ \E n \in 1..Len(sheetsByTitle[lnk.yyyymm].rows) :
         sheetsByTitle[lnk.yyyymm].rows[n].member_email = <<>>
    /\ \E n \in 1..Len(sheetsByTitle[lnk.yyyymm].rows) :
         sheetsByTitle[lnk.yyyymm].rows[n].member_id = <<>>

\* The position among the results of the mail sent for row n of the sheet read.
OutcomeOf(rows, n) == Cardinality({ m \in Complete(rows) : m <= n })

\* C30: sendPaymentLink writes to the spreadsheet only after every mail of the
\* batch has settled, and when it has returned every record it read holds
\* payment_link_sent 'Y' if the mail to that member succeeded and 'N' if it
\* failed, no other cell of any row being changed.
C30_OutcomesWrittenAfterSend ==
    /\ lnk.pc \in {"getRows", "sending"} => (sheetsByTitle = lnk.doc /\ bat.pc = "idle")
    /\ lnk.pc = "returned" =>
         LET was == lnk.doc[lnk.yyyymm].rows
             now == sheetsByTitle[lnk.yyyymm].rows
         IN /\ Len(now) = Len(was)
            /\ \A n \in 1..Len(was) :
                 /\ \A c \in Columns \ {"payment_link_sent"} : now[n][c] = was[n][c]
                 /\ now[n].payment_link_sent =
                      IF n \notin Complete(was) THEN was[n].payment_link_sent
                      ELSE IF lnk.outcomes[OutcomeOf(was, n)].success
                           THEN <<"Y">> ELSE <<"N">>

-----------------------------------------------------------------------------
(* ApiHandler.handleSendEmail: the body of the request is parsed, checked  *)
(* and handed to sendEmail                                                 *)

\* The defaults of the destructuring of the body.
DefaultBodyBatchSize == 5
DefaultBodyDelayMs   == 3450

\* The longest recipient list a request carries.
MaxBodyRecipients == 3

JSArray(a) == [t |-> "array", a |-> a]

\* The addresses of a request: two in turn.
BodyRecipientAt(p) == IF p % 2 = 1 THEN <<"a","@","x">> ELSE <<"b","@","x">>

\* !v is false
Truthy(v) ==
    CASE v.t = "string"    -> v.s # <<>>
      [] v.t = "number"    -> v.n # 0
      [] v.t = "array"     -> TRUE
      [] v.t = "undefined" -> FALSE
      [] v.t = "null"      -> FALSE

\* The bodies drawn as input: to absent, '', one address, or a list; subject and
\* text present or not; batchSize absent, zero or positive; delayMs absent or 0.
Bodies ==
    [ to        : {JSUndefined, JSString(<<>>), JSString(BodyRecipientAt(1))}
                    \cup { JSArray([p \in 1..n |-> BodyRecipientAt(p)]) : n \in 0..MaxBodyRecipients },
      subject   : {JSUndefined, JSString(<<"s">>)},
      text      : {JSUndefined, JSString(<<"t">>)},
      html      : {JSUndefined},
      csvData   : {JSUndefined},
      batchSize : {JSUndefined, JSNumber(0), JSNumber(1), JSNumber(2)},
      delayMs   : {JSUndefined, JSNumber(0)} ]

\* const { ..., batchSize = 5, delayMs = 3450 } = body
OrDefault(v, default) == IF v = JSUndefined THEN default ELSE v.n

\* Array.isArray(to) ? to : [to]
RecipientsOf(v) == IF v.t = "array" THEN v.a ELSE <<v.s>>

\* createResponse(statusCode, ...)
Response(statusCode) == [statusCode |-> statusCode]

HandlerInit ==
    /\ body = NoCall
    /\ sta = NoCall /\ lnk = NoCall /\ form = NoSig /\ processed = NoSig
    /\ params = <<>> /\ sig1 = NoSig /\ sig2 = NoSig
    /\ attached = NoSig /\ tampered = NoSig /\ verdict = NoSig
    /\ MailParked
    /\ StoreParked

\* The request arrives with the e-mail service not connected: 503.
HandleNotConnected ==
    /\ body.pc = "idle"
    /\ body' = [pc |-> "responded", response |-> Response(503)]
    /\ UNCHANGED <<signVars, mailVars, storeVars, sta, lnk, form, processed>>

\* The request arrives with the service connected and the body b: 400 when a
\* field is missing or the recipient list is empty; otherwise sendEmail is
\* called with the recipients, batchSize and delayMs of the body.
HandleSendEmail(b) ==
    /\ body.pc = "idle"
    /\ IF ~Truthy(b.to) \/ ~Truthy(b.subject) \/ (~Truthy(b.text) /\ ~Truthy(b.html))
       THEN /\ body' = [pc |-> "responded", response |-> Response(400)]
            /\ UNCHANGED mailVars
       ELSE IF Len(RecipientsOf(b.to)) = 0
       THEN /\ body' = [pc |-> "responded", response |-> Response(400)]
            /\ UNCHANGED mailVars
       ELSE /\ body' = [pc |-> "sendEmail", response |-> NoResult]
            /\ to' = RecipientsOf(b.to)
            /\ batchSize' = OrDefault(b.batchSize, DefaultBodyBatchSize)
            /\ delayMs' = OrDefault(b.delayMs, DefaultBodyDelayMs)
            /\ pc' = "verify"
            /\ UNCHANGED <<i, pending, batchResults, results, successCount, failureCount,
                           returned, settleOrder, fate, startOrder, delays>>
    /\ UNCHANGED <<signVars, storeVars, sta, lnk, form, processed>>

\* sendEmail has returned: 200 if a mail was sent, 500 otherwise.
HandlerResponds ==
    /\ body.pc = "sendEmail" /\ pc = "done"
    /\ body' = [pc |-> "responded",
                response |-> Response(IF returned.successCount > 0 THEN 200 ELSE 500)]
    /\ UNCHANGED <<signVars, mailVars, storeVars, sta, lnk, form, processed>>

\* sendEmail has thrown: the catch answers 500.
HandlerCatches ==
    /\ body.pc = "sendEmail" /\ pc = "threw"
    /\ body' = [pc |-> "responded", response |-> Response(500)]
    /\ UNCHANGED <<signVars, mailVars, storeVars, sta, lnk, form, processed>>

HandlerNext ==
    \/ HandleNotConnected
    \/ \E b \in Bodies : HandleSendEmail(b)
    \/ VerifySucceeds
    \/ VerifyFails
    \/ StartBatch
    \/ \E p \in 1..Len(to) : SendSucceeds(p)
    \/ \E p \in 1..Len(to) : SendFails(p)
    \/ AwaitBatch
    \/ DelayElapses
    \/ Return
    \/ HandlerResponds
    \/ HandlerCatches

\* Every continuation that is ready runs, and every transport call returns.
HandlerSpec == HandlerInit /\ [][HandlerNext]_vars /\ WF_vars(HandlerNext)

\* C28: every batch send handleSendEmail starts completes and is answered with a
\* response, every transport call returning: the loop of sendEmail, called with
\* the batchSize of the request, gets past every recipient.
C28_BatchSendResponds ==
    (body.pc = "sendEmail") ~> (body.pc = "responded")

====
